---- MODULE Spec2Model ----
(***************************************************************************)
(* Model of the pii_buddy redaction pipeline: redactor.redact,             *)
(* restorer.restore, audit.audit_redacted, verifier._apply_findings,       *)
(* verifier.verify_and_patch, openrouter_verifier.openrouter_verify_and_   *)
(* patch and sharder.neutralize_tags / shard_text.                         *)
(*                                                                         *)
(* Texts are sequences of one-character strings; offsets are the 0-based   *)
(* half-open offsets of the Python code.  A Python dict is a sequence of   *)
(* <<key, value>> pairs in insertion order.                                *)
(***************************************************************************)
EXTENDS Integers, Sequences, FiniteSets, TLC

\* ------------------------------------------------------------------------
\* Characters
\* ------------------------------------------------------------------------
UpperSeq ==
  << "A","B","C","D","E","F","G","H","I","J","K","L","M",
     "N","O","P","Q","R","S","T","U","V","W","X","Y","Z" >>

LowerSeq ==
  << "a","b","c","d","e","f","g","h","i","j","k","l","m",
     "n","o","p","q","r","s","t","u","v","w","x","y","z" >>

DigitSeq ==
  << "0","1","2","3","4","5","6","7","8","9" >>

UpperSet == { UpperSeq[i] : i \in 1..26 }

LowerSet == { LowerSeq[i] : i \in 1..26 }

DigitSet == { DigitSeq[i] : i \in 1..10 }

\* str.lower() of one character
LowerMap ==
  [ c \in UpperSet |-> LowerSeq[CHOOSE i \in 1..26 : UpperSeq[i] = c] ]

\* str.upper() of one character
UpperMap ==
  [ c \in LowerSet |-> UpperSeq[CHOOSE i \in 1..26 : LowerSeq[i] = c] ]

LowerChar(c) == IF c \in UpperSet THEN LowerMap[c] ELSE c

UpperChar(c) == IF c \in LowerSet THEN UpperMap[c] ELSE c

\* whitespace as matched by \s, str.split() and str.strip()
IsSpace(c) == c \in {" ", "\n"}

\* word character as matched by \w (decides \b)
IsWordChar(c) == c \in UpperSet \cup LowerSet \cup DigitSet \cup {"_"}

\* code point order of the characters the model uses (for sorted() of str)
CodePoint ==
  [ c \in UpperSet \cup LowerSet \cup DigitSet
          \cup {"\n", " ", "'", ".", "/", "<", ">", "@", "_"} |->
      IF c = "\n" THEN 10
      ELSE IF c = " " THEN 32
      ELSE IF c = "'" THEN 39
      ELSE IF c = "." THEN 46
      ELSE IF c = "/" THEN 47
      ELSE IF c \in DigitSet THEN 47 + (CHOOSE i \in 1..10 : DigitSeq[i] = c)
      ELSE IF c = "<" THEN 60
      ELSE IF c = ">" THEN 62
      ELSE IF c = "@" THEN 64
      ELSE IF c \in UpperSet THEN 64 + (CHOOSE i \in 1..26 : UpperSeq[i] = c)
      ELSE IF c = "_" THEN 95
      ELSE 96 + (CHOOSE i \in 1..26 : LowerSeq[i] = c) ]

\* ------------------------------------------------------------------------
\* Strings
\* ------------------------------------------------------------------------
\* t[a:b]
Slice(t, a, b) == SubSeq(t, a + 1, b)

\* t.lower()
Lower(t) == [ i \in 1..Len(t) |-> LowerChar(t[i]) ]

\* p occurs in t at offset i; ci: compared as under re.IGNORECASE
MatchAt(t, p, i, ci) ==
  /\ i + Len(p) <= Len(t)
  /\ \A k \in 1..Len(p) :
       IF ci THEN LowerChar(t[i + k]) = LowerChar(p[k]) ELSE t[i + k] = p[k]

\* p in t
Contains(t, p) == \E i \in 0..(Len(t) - Len(p)) : MatchAt(t, p, i, FALSE)

\* p in t, ignoring case
ContainsCI(t, p) == \E i \in 0..(Len(t) - Len(p)) : MatchAt(t, p, i, TRUE)

\* the least element of a non-empty set of integers
MinOf(S) == CHOOSE x \in S : \A y \in S : x <= y

RECURSIVE ReplaceFrom(_, _, _, _, _)
ReplaceFrom(t, p, r, ci, i) ==
  LET hits == { j \in i..(Len(t) - Len(p)) : MatchAt(t, p, j, ci) }
  IN  IF hits = {} THEN Slice(t, i, Len(t))
      ELSE Slice(t, i, MinOf(hits)) \o r \o ReplaceFrom(t, p, r, ci, MinOf(hits) + Len(p))

\* t.replace(p, r) / re.compile(re.escape(p), re.IGNORECASE).sub(r, t), for
\* a non-empty p: the leftmost non-overlapping occurrences are replaced
ReplaceAll(t, p, r, ci) == ReplaceFrom(t, p, r, ci, 0)

RECURSIVE Concat(_)
\* "".join(ss)
Concat(ss) == IF ss = << >> THEN << >> ELSE Head(ss) \o Concat(Tail(ss))

RECURSIVE SplitFrom(_, _)
SplitFrom(t, i) ==
  LET starts == { j \in i..(Len(t) - 1) : ~IsSpace(t[j + 1]) }
      a      == MinOf(starts)
      ends   == { j \in (a + 1)..Len(t) : j = Len(t) \/ IsSpace(t[j + 1]) }
  IN  IF starts = {} THEN << >>
      ELSE << Slice(t, a, MinOf(ends)) >> \o SplitFrom(t, MinOf(ends))

\* t.split()
Split(t) == SplitFrom(t, 0)

\* x in seq
InSeq(x, s) == \E i \in 1..Len(s) : s[i] = x

RECURSIVE IntStr(_)
\* str(n) for n >= 0
IntStr(n) ==
  IF n < 10 THEN << DigitSeq[n + 1] >>
  ELSE IntStr(n \div 10) \o << DigitSeq[(n % 10) + 1] >>

\* a < b for str
LexLess(a, b) ==
  \E k \in 1..(Len(a) + 1) :
    /\ \A j \in 1..(k - 1) : j <= Len(b) /\ a[j] = b[j]
    /\ k <= Len(b)
    /\ (k > Len(a) \/ CodePoint[a[k]] < CodePoint[b[k]])

RECURSIVE SortLex(_)
\* sorted(S) for a set of str
SortLex(S) ==
  IF S = {} THEN << >>
  ELSE LET m == CHOOSE x \in S : \A y \in S \ {x} : LexLess(x, y)
       IN  << m >> \o SortLex(S \ {m})

RECURSIVE InsertByLen(_, _)
InsertByLen(s, x) ==
  IF s = << >> THEN << x >>
  ELSE IF Len(Head(s)) >= Len(x) THEN << Head(s) >> \o InsertByLen(Tail(s), x)
  ELSE << x >> \o s

RECURSIVE SortLenDesc(_)
\* sorted(s, key=len, reverse=True): stable, longest first
SortLenDesc(s) ==
  IF s = << >> THEN << >>
  ELSE InsertByLen(SortLenDesc(SubSeq(s, 1, Len(s) - 1)), s[Len(s)])

\* ------------------------------------------------------------------------
\* dict
\* ------------------------------------------------------------------------
DictKeys(d) == [ i \in 1..Len(d) |-> d[i][1] ]

DictValues(d) == [ i \in 1..Len(d) |-> d[i][2] ]

KeySet(d) == { d[i][1] : i \in 1..Len(d) }

ValueSet(d) == { d[i][2] : i \in 1..Len(d) }

DictHas(d, k) == k \in KeySet(d)

\* d[k]
DictGet(d, k) == d[CHOOSE i \in 1..Len(d) : d[i][1] = k][2]

\* d[k] = v: an existing key keeps its position
DictSet(d, k, v) ==
  IF DictHas(d, k)
  THEN [ i \in 1..Len(d) |-> IF d[i][1] = k THEN << k, v >> ELSE d[i] ]
  ELSE Append(d, << k, v >>)

\* defaultdict(int)[k]
CountGet(d, k) == IF DictHas(d, k) THEN DictGet(d, k) ELSE 0

\* ------------------------------------------------------------------------
\* redactor.py
\* ------------------------------------------------------------------------
\* Entity labels as the characters that f"<<{ent.label}_{n}>>" writes
LabelChars ==
  [ l \in {"PERSON", "EMAIL", "PHONE", "SSN", "URL", "DOB", "ID_NUMBER", "ADDRESS"} |->
      CASE l = "PERSON"    -> << "P","E","R","S","O","N" >>
        [] l = "EMAIL"     -> << "E","M","A","I","L" >>
        [] l = "PHONE"     -> << "P","H","O","N","E" >>
        [] l = "SSN"       -> << "S","S","N" >>
        [] l = "URL"       -> << "U","R","L" >>
        [] l = "DOB"       -> << "D","O","B" >>
        [] l = "ID_NUMBER" -> << "I","D","_","N","U","M","B","E","R" >>
        [] l = "ADDRESS"   -> << "A","D","D","R","E","S","S" >> ]

\* 'Steve Johnson' -> 'SJ'
_make_initials(name) ==
  LET parts == Split(name)
  IN  Concat([ i \in 1..Len(parts) |-> << UpperChar(parts[i][1]) >> ])

\* a tag of the initials alone, whatever the count
PersonTagPlain(initials, n) == << "<", "<" >> \o initials \o << ">", ">" >>

\* f"<<{initials}>>" and f"<<{initials}{n}>>"
PersonTag(initials, n) ==
  << "<", "<" >> \o initials \o (IF n > 1 THEN IntStr(n) ELSE << >>) \o << ">", ">" >>

\* f"<<{label}_{n}>>"
TypedTag(labelChars, n) ==
  << "<", "<" >> \o labelChars \o << "_" >> \o IntStr(n) \o << ">", ">" >>

\* the orders sorted(set(...), key=len, reverse=True) can give: the set is
\* iterated in hash order, so names of equal length come in any order
NameOrders(S) ==
  { s \in [1..Cardinality(S) -> S] :
      /\ \A i, j \in 1..Cardinality(S) : i # j => s[i] # s[j]
      /\ \A i \in 1..(Cardinality(S) - 1) : Len(s[i]) >= Len(s[i + 1]) }

\* the first full name of canonical.values() that has the name as one of its
\* lower-cased parts, or << >> when there is none
FirstFullWith(canonical, name) ==
  LET hits == { i \in 1..Len(canonical) :
                  InSeq(Lower(name), Split(Lower(canonical[i][2]))) }
  IN  IF hits = {} THEN << >>
      ELSE << canonical[CHOOSE i \in hits : \A j \in hits : i <= j][2] >>

RECURSIVE GroupFrom(_, _, _)
GroupFrom(names, i, canonical) ==
  IF i > Len(names) THEN canonical
  ELSE LET name == names[i]
           full == FirstFullWith(canonical, name)
       IN  IF DictHas(canonical, name) THEN GroupFrom(names, i + 1, canonical)
           ELSE IF full # << >>
                THEN GroupFrom(names, i + 1, DictSet(canonical, name, full[1]))
                ELSE GroupFrom(names, i + 1, DictSet(canonical, name, name))

\* {surface_form: canonical_full_name}; names is the sorted list of line 21
_group_names(names) == GroupFrom(names, 1, << >>)

RECURSIVE AssignInitials(_, _, _, _)
\* lines 58-68: state is <<initials_count, canonical_to_tag>>
AssignInitials(canon, i, counts, c2t) ==
  IF i > Len(canon) THEN c2t
  ELSE LET initials == _make_initials(canon[i])
           n        == CountGet(counts, initials) + 1
       IN  AssignInitials(canon, i + 1, DictSet(counts, initials, n),
                          DictSet(c2t, canon[i], PersonTag(initials, n)))

RECURSIVE AssignTyped(_, _, _, _)
\* lines 76-85: state is <<type_counters, value_to_tag>>
AssignTyped(others, i, counters, v2t) ==
  IF i > Len(others) THEN v2t
  ELSE LET ent == others[i]
           n   == CountGet(counters, ent.label) + 1
       IN  IF DictHas(v2t, ent.text) THEN AssignTyped(others, i + 1, counters, v2t)
           ELSE AssignTyped(others, i + 1, DictSet(counters, ent.label, n),
                            DictSet(v2t, ent.text, TypedTag(LabelChars[ent.label], n)))

RECURSIVE InsertByStart(_, _)
InsertByStart(s, e) ==
  IF s = << >> THEN << e >>
  ELSE IF Head(s).start >= e.start THEN << Head(s) >> \o InsertByStart(Tail(s), e)
  ELSE << e >> \o s

RECURSIVE SortStartDesc(_)
\* sorted(entities, key=lambda e: e.start, reverse=True)
SortStartDesc(s) ==
  IF s = << >> THEN << >>
  ELSE InsertByStart(SortStartDesc(SubSeq(s, 1, Len(s) - 1)), s[Len(s)])

RECURSIVE ReplaceEntities(_, _, _, _, _)
\* lines 91-96
ReplaceEntities(redacted, ents, i, s2t, v2t) ==
  IF i > Len(ents) THEN redacted
  ELSE LET ent == ents[i]
           tag == IF ent.label = "PERSON"
                  THEN (IF DictHas(s2t, ent.text) THEN DictGet(s2t, ent.text)
                        ELSE PersonTag(_make_initials(ent.text), 1))
             ELSE (IF DictHas(v2t, ent.text) THEN DictGet(v2t, ent.text)
                        ELSE << "<", "<" >> \o LabelChars[ent.label] \o << ">", ">" >>)
       IN  ReplaceEntities(Slice(redacted, 0, ent.start) \o tag
                             \o Slice(redacted, ent.end, Len(redacted)),
                           ents, i + 1, s2t, v2t)

\* redact without its global name pass
GlobalNamePassSkipped(redacted, surfaces, i, s2t) == redacted

RECURSIVE GlobalNamePass(_, _, _, _)
\* lines 100-105
GlobalNamePass(redacted, surfaces, i, s2t) ==
  IF i > Len(surfaces) THEN redacted
  ELSE GlobalNamePass(ReplaceAll(redacted, surfaces[i], DictGet(s2t, surfaces[i]), TRUE),
                      surfaces, i + 1, s2t)

RECURSIVE TagToOriginal(_, _, _, _, _)
\* lines 108-114
TagToOriginal(s2t, name_groups, v2t, i, acc) ==
  IF i <= Len(s2t)
  THEN TagToOriginal(s2t, name_groups, v2t, i + 1,
                     DictSet(acc, s2t[i][2], DictGet(name_groups, s2t[i][1])))
  ELSE IF i <= Len(s2t) + Len(v2t)
  THEN TagToOriginal(s2t, name_groups, v2t, i + 1,
                     DictSet(acc, v2t[i - Len(s2t)][2], v2t[i - Len(s2t)][1]))
  ELSE acc

PersonTexts(entities) ==
  { entities[i].text : i \in { j \in 1..Len(entities) : entities[j].label = "PERSON" } }

\* redact(text, entities); names is the order line 21 produced
redact(txt, entities, names) ==
  LET IsOther(e)     == e.label # "PERSON"
      other_entities == SelectSeq(entities, IsOther)
      name_groups    == _group_names(names)
      canonical_to_tag ==
        AssignInitials(SortLex(ValueSet(name_groups)), 1, << >>, << >>)
      surface_to_tag ==
        [ i \in 1..Len(name_groups) |->
            << name_groups[i][1], DictGet(canonical_to_tag, name_groups[i][2]) >> ]
      value_to_tag   == AssignTyped(other_entities, 1, << >>, << >>)
      replaced       == ReplaceEntities(txt, SortStartDesc(entities), 1,
                                        surface_to_tag, value_to_tag)
      redacted       == GlobalNamePass(replaced, SortLenDesc(DictKeys(surface_to_tag)),
                                       1, surface_to_tag)
  IN  [ text    |-> redacted,
        mapping |-> [ tags    |-> TagToOriginal(surface_to_tag, name_groups,
                                                value_to_tag, 1, << >>),
                      persons |-> surface_to_tag ] ]

\* ------------------------------------------------------------------------
\* restorer.py
\* ------------------------------------------------------------------------
RECURSIVE RestoreFrom(_, _, _, _)
RestoreFrom(restored, keys, i, tags) ==
  IF i > Len(keys) THEN restored
  ELSE RestoreFrom(ReplaceAll(restored, keys[i], DictGet(tags, keys[i]), FALSE),
                   keys, i + 1, tags)

\* restore(redacted_text, mapping): longest tags first, literal replace
restore(redacted_text, mapping) ==
  RestoreFrom(redacted_text, SortLenDesc(DictKeys(mapping.tags)), 1, mapping.tags)

\* ------------------------------------------------------------------------
\* audit.py: the regular expressions
\* ------------------------------------------------------------------------
SpaceSet == {" ", "\n"}

\* the greatest element of a non-empty set of integers (found as the least
\* of the negated elements, which takes one pass over the set)
MaxOf(S) == 0 - MinOf({ 0 - x : x \in S })

\* end of the longest run of characters of S that starts at offset i
RunEnd(t, i, S) ==
  CHOOSE j \in i..Len(t) :
    /\ \A k \in (i + 1)..j : t[k] \in S
    /\ (j = Len(t) \/ t[j + 1] \notin S)

\* an offset of -1 stands for "no match" and is handed on by every matcher

\* [A-Z][a-z]{minLower,} at offset i, taken greedily: its end, or -1
CapWordEnd(t, i, minLower) ==
  IF i >= 0 /\ i < Len(t) /\ t[i + 1] \in UpperSet
  THEN IF RunEnd(t, i + 1, LowerSet) - (i + 1) >= minLower
       THEN RunEnd(t, i + 1, LowerSet) ELSE -1
  ELSE -1

\* \b at offset e, where the character before e is a word character
EndBoundary(t, e) == e = Len(t) \/ ~IsWordChar(t[e + 1])

\* \b at offset i, where the character at i is a word character
StartBoundary(t, i) == i = 0 \/ ~IsWordChar(t[i])

\* \s+ at offset e: its end, or -1
SpacesEnd(t, e) ==
  IF e >= 0 /\ RunEnd(t, e, SpaceSet) > e THEN RunEnd(t, e, SpaceSet) ELSE -1

\* the word that follows \s+ after offset e: its end, or -1
NextCapWordEnd(t, e, minLower) == CapWordEnd(t, SpacesEnd(t, e), minLower)

RECURSIVE CapWordsEnd(_, _, _, _)
\* k further (?:\s+W) after the words that end at e: their end, or -1
CapWordsEnd(t, e, minLower, k) ==
  IF k = 0 \/ e = -1 THEN e
  ELSE CapWordsEnd(t, NextCapWordEnd(t, e, minLower), minLower, k - 1)

\* the greedy choice among the ends of a bounded repetition: the longest one
\* after which \b holds, or -1
GreedyEnd(t, ends) ==
  LET ok == { k \in DOMAIN ends : ends[k] # -1 /\ EndBoundary(t, ends[k]) }
  IN  IF ok = {} THEN -1 ELSE ends[MaxOf(ok)]

\* W(?:\s+W){minExtra,maxExtra}\b at offset i with W = [A-Z][a-z]{minLower,}:
\* the end of the greedy match, or -1
CapGroupEnd(t, i, minLower, minExtra, maxExtra) ==
  GreedyEnd(t, [ k \in minExtra..maxExtra |->
                   CapWordsEnd(t, CapWordEnd(t, i, minLower), minLower, k) ])

NameLit == << "<", "N", "A", "M", "E" >>

\* [A-Z]+\d*> from offset s on: its end, or -1
InitialsEnd(t, s, u, d) ==
  IF u > s /\ d < Len(t) /\ t[d + 1] = ">" THEN d + 1 ELSE -1

\* _NAME_TAG_RE  <NAME\s+[A-Z]+\d*>  at offset i: its end, or -1
NameTagEnd(t, i) ==
  IF i < 0 \/ ~MatchAt(t, NameLit, i, FALSE) \/ SpacesEnd(t, i + 5) = -1 THEN -1
  ELSE InitialsEnd(t, SpacesEnd(t, i + 5),
                   RunEnd(t, SpacesEnd(t, i + 5), UpperSet),
                   RunEnd(t, RunEnd(t, SpacesEnd(t, i + 5), UpperSet), DigitSet))

\* _\d+>> from offset u on, after the letters that began at offset s
TypedTail(t, s, u, d) ==
  IF /\ u > s
     /\ u < Len(t)
     /\ t[u + 1] = "_"
     /\ d > u + 1
     /\ MatchAt(t, << ">", ">" >>, d, FALSE)
  THEN d + 2 ELSE -1

\* _TYPED_TAG_RE  <<[A-Z]+_\d+>>  at offset i: its end, or -1
TypedTagEnd(t, i) ==
  IF ~MatchAt(t, << "<", "<" >>, i, FALSE) THEN -1
  ELSE TypedTail(t, i + 2, RunEnd(t, i + 2, UpperSet),
                 IF RunEnd(t, i + 2, UpperSet) < Len(t)
                 THEN RunEnd(t, RunEnd(t, i + 2, UpperSet) + 1, DigitSet) ELSE -1)

\* lines 50-54: the span start..end touches the tag match that spans i..me
TouchesTag(i, me, start, end) ==
  me # -1 /\ ((i <= start /\ start < me) \/ (i < end /\ end <= me))

\* _is_already_tagged(text, start, end)
_is_already_tagged(t, start, end) ==
  \E i \in 0..(Len(t) - 1) :
    \/ TouchesTag(i, NameTagEnd(t, i), start, end)
    \/ TouchesTag(i, TypedTagEnd(t, i), start, end)

\* "and" and the \s+ after it, from offset s on: the end, or -1
AndWordEnd(t, s) ==
  IF s >= 0 /\ MatchAt(t, << "a", "n", "d" >>, s, FALSE) THEN SpacesEnd(t, s + 3) ELSE -1

\* \s+and\s+ at offset e: its end, or -1
AndEnd(t, e) == AndWordEnd(t, SpacesEnd(t, e))

NoMatch == [ start |-> -1, end |-> -1, gstart |-> -1, gend |-> -1 ]

\* the match object with span start..end and group 1 at gstart..gend
Match(start, end, gstart, gend) ==
  IF start = -1 \/ end = -1 \/ gstart = -1 \/ gend = -1 THEN NoMatch
  ELSE [ start |-> start, end |-> end, gstart |-> gstart, gend |-> gend ]

\* the first of the alternatives ms that matched
FirstHit(ms) ==
  LET ok == { k \in DOMAIN ms : ms[k].end # -1 }
  IN  IF ok = {} THEN NoMatch ELSE ms[MinOf(ok)]

\* the capitalized word(s) of lines 20-21 from offset a on
ConjAfterGroup(t, i, a, g) == Match(i, g, a, g)

\* <NAME XX> and CapitalizedWord, at offset i
ConjAfterMatch(t, i) ==
  ConjAfterGroup(t, i, AndEnd(t, NameTagEnd(t, i)),
                 CapGroupEnd(t, AndEnd(t, NameTagEnd(t, i)), 2, 0, 1))

\* the words of lines 23-24 end at e; "and <NAME XX>" has to follow
ConjBeforeVia(t, i, e) == Match(i, NameTagEnd(t, AndEnd(t, e)), i, e)

\* CapitalizedWord and <NAME XX>, at offset i: the optional second word is
\* tried first
ConjBeforeMatch(t, i) ==
  IF ~StartBoundary(t, i) THEN NoMatch
  ELSE FirstHit(<< ConjBeforeVia(t, i, CapWordsEnd(t, CapWordEnd(t, i, 2), 2, 1)),
                   ConjBeforeVia(t, i, CapWordEnd(t, i, 2)) >>)

Titles ==
  << << "M","r" >>, << "M","r","s" >>, << "M","s" >>, << "M","i","s","s" >>,
     << "D","r" >>, << "P","r","o","f" >>,
     << "P","r","o","f","e","s","s","o","r" >>, << "R","e","v" >>,
     << "J","u","d","g","e" >>, << "H","o","n" >> >>

\* \s+(...)\b of _TITLE_RE from offset d on
TitleName(t, i, d) ==
  Match(i, CapGroupEnd(t, SpacesEnd(t, d), 1, 0, 1), SpacesEnd(t, d),
        CapGroupEnd(t, SpacesEnd(t, d), 1, 0, 1))

\* what follows one title alternative that ends at offset e:  \.?\s+(...)\b
TitleRest(t, i, e) ==
  FirstHit(<< IF e < Len(t) /\ t[e + 1] = "." THEN TitleName(t, i, e + 1) ELSE NoMatch,
              TitleName(t, i, e) >>)

\* _TITLE_RE at offset i: the first alternative that lets the rest match
TitleMatch(t, i) ==
  IF ~StartBoundary(t, i) THEN NoMatch
  ELSE FirstHit([ k \in 1..Len(Titles) |->
                    IF MatchAt(t, Titles[k], i, FALSE)
                    THEN TitleRest(t, i, i + Len(Titles[k])) ELSE NoMatch ])

\* _CAP_PHRASE_RE at offset i
CapPhraseMatch(t, i) ==
  IF ~StartBoundary(t, i) THEN NoMatch
  ELSE Match(i, CapGroupEnd(t, i, 2, 1, 2), i, CapGroupEnd(t, i, 2, 1, 2))

\* 's\b after the word that ends at e
PossessiveEnd(t, e) ==
  IF e # -1 /\ MatchAt(t, << "'", "s" >>, e, FALSE) /\ EndBoundary(t, e + 2)
  THEN e + 2 ELSE -1

\* _POSSESSIVE_RE at offset i
PossessiveMatch(t, i) ==
  IF ~StartBoundary(t, i) THEN NoMatch
  ELSE Match(i, PossessiveEnd(t, CapWordEnd(t, i, 2)), i, CapWordEnd(t, i, 2))

\* ------------------------------------------------------------------------
\* audit.py: the four checks
\* ------------------------------------------------------------------------
RECURSIVE FindIter(_, _, _)
\* re.finditer over a text of length n, where at[j] is the match of the
\* pattern at offset j: the scan goes left to right and resumes at the end
\* of each match
FindIter(at, n, i) ==
  LET hits == { j \in i..(n - 1) : at[j].end # -1 }
  IN  IF hits = {} THEN << >>
      ELSE << at[MinOf(hits)] >> \o FindIter(at, n, at[MinOf(hits)].end)

\* the matches whose group 1 is not inside a tag
Untagged(t, ms) ==
  SelectSeq(ms, LAMBDA m : ~_is_already_tagged(t, m.gstart, m.gend))

\* m.group(1) of every match
Groups(t, ms) == [ k \in 1..Len(ms) |-> Slice(t, ms[k].gstart, ms[k].gend) ]

\* _check_orphaned_conjunctions(text)
_check_orphaned_conjunctions(t) ==
  Groups(t, Untagged(t, FindIter([ j \in 0..(Len(t) - 1) |-> ConjAfterMatch(t, j) ],
                                 Len(t), 0)))
    \o Groups(t, Untagged(t, FindIter([ j \in 0..(Len(t) - 1) |-> ConjBeforeMatch(t, j) ],
                                      Len(t), 0)))

\* _check_title_prefixed(text)
_check_title_prefixed(t) ==
  Groups(t, Untagged(t, FindIter([ j \in 0..(Len(t) - 1) |-> TitleMatch(t, j) ],
                                 Len(t), 0)))

\* lines 100-107: the phrase is not blocklisted and is two or more words of
\* three or more characters each
CapPhraseKept(bl, phrase, words) ==
  /\ Lower(phrase) \notin bl
  /\ \A w \in 1..Len(words) : Len(words[w]) >= 3
  /\ Len(words) >= 2

\* _check_capitalized_phrases(text), with the blocklist bl
_check_capitalized_phrases(t, bl) ==
  SelectSeq(Groups(t, Untagged(t, FindIter([ j \in 0..(Len(t) - 1) |->
                                               CapPhraseMatch(t, j) ],
                                           Len(t), 0))),
            LAMBDA phrase : CapPhraseKept(bl, phrase, Split(phrase)))

\* _check_possessive_references(text, known_names)
_check_possessive_references(t, known) ==
  SelectSeq(Groups(t, Untagged(t, FindIter([ j \in 0..(Len(t) - 1) |->
                                               PossessiveMatch(t, j) ],
                                           Len(t), 0))),
            LAMBDA word : Lower(word) \in known)

\* _collect_known_names(mapping)
_collect_known_names(mapping) ==
  UNION { {Lower(mapping.persons[i][1])}
            \cup { Lower(Split(mapping.persons[i][1])[k]) :
                     k \in { j \in 1..Len(Split(mapping.persons[i][1])) :
                               Len(Split(mapping.persons[i][1])[j]) >= 3 } } :
          i \in 1..Len(mapping.persons) }

RECURSIVE Dedupe(_, _, _, _)
\* lines 138-143
Dedupe(fs, bl, i, acc) ==
  IF i > Len(fs) THEN acc
  ELSE IF Lower(fs[i]) \in { Lower(acc[k]) : k \in 1..Len(acc) } \/ Lower(fs[i]) \in bl
       THEN Dedupe(fs, bl, i + 1, acc)
       ELSE Dedupe(fs, bl, i + 1, Append(acc, fs[i]))

\* the unique findings of lines 131-143
AuditFindings(t, mapping, bl) ==
  Dedupe(_check_orphaned_conjunctions(t)
           \o _check_title_prefixed(t)
           \o _check_capitalized_phrases(t, bl)
           \o _check_possessive_references(t, _collect_known_names(mapping)),
         bl, 1, << >>)

\* ------------------------------------------------------------------------
\* Tag counters shared by audit.py and verifier.py
\* ------------------------------------------------------------------------
RECURSIVE StrInt(_)
\* int(digits)
StrInt(ds) ==
  IF ds = << >> THEN 0
  ELSE 10 * StrInt(SubSeq(ds, 1, Len(ds) - 1))
         + ((CHOOSE k \in 1..10 : DigitSeq[k] = ds[Len(ds)]) - 1)

\* re.match(r"^<NAME ([A-Z]+?)(\d+)?>$", tag): << >> or << <<initials, n>> >>
NameTagParse(tag) ==
  IF ~MatchAt(tag, NameLit \o << " " >>, 0, FALSE) THEN << >>
  ELSE LET u == RunEnd(tag, 6, UpperSet)
           d == RunEnd(tag, u, DigitSet)
       IN  IF u > 6 /\ d = Len(tag) - 1 /\ tag[Len(tag)] = ">"
           THEN << << Slice(tag, 6, u),
                      IF d > u THEN StrInt(Slice(tag, u, d)) ELSE 1 >> >>
           ELSE << >>

\* f"<NAME {initials}>" and f"<NAME {initials}{n}>"
NameTag(initials, n) ==
  NameLit \o << " " >> \o initials \o (IF n > 1 THEN IntStr(n) ELSE << >>) \o << ">" >>

Max(a, b) == IF a >= b THEN a ELSE b

RECURSIVE InitialsMax(_, _, _)
\* initials_max as rebuilt from the keys of tags
InitialsMax(tags, i, acc) ==
  IF i > Len(tags) THEN acc
  ELSE LET pm == NameTagParse(tags[i][1])
       IN  IF pm = << >> THEN InitialsMax(tags, i + 1, acc)
           ELSE InitialsMax(tags, i + 1,
                            DictSet(acc, pm[1][1], Max(CountGet(acc, pm[1][1]), pm[1][2])))

\* ------------------------------------------------------------------------
\* audit.py: audit_redacted
\* ------------------------------------------------------------------------
\* an auditor that never looks for an owning cluster
ExistingTagNever(persons, pii_text) == << >>

\* the tag of the first surface of persons that has pii_text as a part
ExistingTag(persons, pii_text) ==
  LET hits == { i \in 1..Len(persons) :
                  InSeq(Lower(pii_text), Split(Lower(persons[i][1]))) }
  IN  IF hits = {} THEN << >>
      ELSE persons[CHOOSE i \in hits : \A j \in hits : i <= j][2]

RECURSIVE AuditApplyTagsOnly(_, _, _)
\* an auditor that records a finding in tags and not in persons
AuditApplyTagsOnly(fs, i, st) ==
  IF i > Len(fs) THEN st
  ELSE LET pii_text == fs[i]
           existing == ExistingTag(st.persons, pii_text)
           initials == _make_initials(pii_text)
           n        == CountGet(st.initials_max, initials) + 1
           tag      == IF existing # << >> THEN existing ELSE NameTag(initials, n)
       IN  IF \/ Contains(pii_text, NameLit \o << " " >>)
              \/ Contains(pii_text, << "<", "<" >>)
              \/ pii_text \in ValueSet(st.tags)
              \/ ~Contains(st.patched, pii_text)
           THEN AuditApplyTagsOnly(fs, i + 1, st)
           ELSE AuditApplyTagsOnly(fs, i + 1,
                  [ patched      |-> ReplaceAll(st.patched, pii_text, tag, TRUE),
                    tags         |-> DictSet(st.tags, tag, pii_text),
                    persons      |-> st.persons,
                    initials_max |-> IF existing # << >> THEN st.initials_max
                                     ELSE DictSet(st.initials_max, initials, n),
                    applied      |-> st.applied + 1 ])

RECURSIVE AuditApply(_, _, _)
\* lines 163-197; st = [patched, tags, persons, initials_max, applied]
AuditApply(fs, i, st) ==
  IF i > Len(fs) THEN st
  ELSE LET pii_text == fs[i]
           existing == ExistingTag(st.persons, pii_text)
           initials == _make_initials(pii_text)
           n        == CountGet(st.initials_max, initials) + 1
           tag      == IF existing # << >> THEN existing ELSE NameTag(initials, n)
       IN  IF \/ Contains(pii_text, NameLit \o << " " >>)
              \/ Contains(pii_text, << "<", "<" >>)
              \/ pii_text \in ValueSet(st.tags)
              \/ ~Contains(st.patched, pii_text)
           THEN AuditApply(fs, i + 1, st)
           ELSE AuditApply(fs, i + 1,
                  [ patched      |-> ReplaceAll(st.patched, pii_text, tag, TRUE),
                    tags         |-> DictSet(st.tags, tag, pii_text),
                    persons      |-> DictSet(st.persons, pii_text, tag),
                    initials_max |-> IF existing # << >> THEN st.initials_max
                                     ELSE DictSet(st.initials_max, initials, n),
                    applied      |-> st.applied + 1 ])

\* audit_redacted(redacted_text, mapping) with the blocklist bl
audit_redacted(redacted_text, mapping, bl) ==
  LET unique_findings == AuditFindings(redacted_text, mapping, bl)
      st == AuditApply(unique_findings, 1,
              [ patched      |-> redacted_text,
                tags         |-> mapping.tags,
                persons      |-> mapping.persons,
                initials_max |-> InitialsMax(mapping.tags, 1, << >>),
                applied      |-> 0 ])
  IN  IF unique_findings = << >>
      THEN [ text |-> redacted_text, mapping |-> mapping ]
      ELSE [ text    |-> st.patched,
             mapping |-> [ tags |-> st.tags, persons |-> st.persons ] ]

\* ------------------------------------------------------------------------
\* verifier.py: _apply_findings
\* ------------------------------------------------------------------------
\* t.strip(chars) for the characters of S
StripChars(t, S) ==
  IF \A k \in 1..Len(t) : t[k] \in S THEN << >>
  ELSE LET a == CHOOSE k \in 1..Len(t) : t[k] \notin S /\ \A j \in 1..(k - 1) : t[j] \in S
           b == CHOOSE k \in 1..Len(t) : t[k] \notin S /\ \A j \in (k + 1)..Len(t) : t[j] \in S
       IN  SubSeq(t, a, b)

\* re.match(r"^([A-Z]+)_(\d+)$", tag.strip("<>")): << >> or << <<type, n>> >>
TypedTagParse(tag) ==
  LET inner == StripChars(tag, {"<", ">"})
      u     == RunEnd(inner, 0, UpperSet)
      d     == RunEnd(inner, u + 1, DigitSet)
  IN  IF /\ u > 0
         /\ u < Len(inner)
         /\ inner[u + 1] = "_"
         /\ d > u + 1
         /\ d = Len(inner)
      THEN << << Slice(inner, 0, u), StrInt(Slice(inner, u + 1, d)) >> >>
      ELSE << >>

RECURSIVE TypeMax(_, _, _)
\* type_max as rebuilt from the keys of tags (lines 116-127)
TypeMax(tags, i, acc) ==
  IF i > Len(tags) THEN acc
  ELSE LET m == TypedTagParse(tags[i][1])
       IN  IF NameTagParse(tags[i][1]) # << >> \/ m = << >>
           THEN TypeMax(tags, i + 1, acc)
           ELSE TypeMax(tags, i + 1,
                        DictSet(acc, m[1][1], Max(CountGet(acc, m[1][1]), m[1][2])))

RECURSIVE PatchApply(_, _, _)
\* lines 132-166; st = [patched, tags, persons, type_max, initials_max, applied]
PatchApply(findings, i, st) ==
  IF i > Len(findings) THEN st
  ELSE LET pii_text == findings[i].text
           etype    == LabelChars[findings[i].entity_type]
           initials == _make_initials(pii_text)
           pn       == CountGet(st.initials_max, initials) + 1
           tn       == CountGet(st.type_max, etype) + 1
           isPerson == findings[i].entity_type = "PERSON"
           tag      == IF isPerson THEN NameTag(initials, pn) ELSE TypedTag(etype, tn)
       IN  IF \/ Contains(pii_text, NameLit \o << " " >>)
              \/ Contains(pii_text, << "<", "<" >>)
              \/ Contains(pii_text, << ">", ">" >>)
              \/ pii_text \in ValueSet(st.tags)
              \/ ~Contains(st.patched, pii_text)
           THEN PatchApply(findings, i + 1, st)
           ELSE PatchApply(findings, i + 1,
                  [ patched      |-> ReplaceAll(st.patched, pii_text, tag, TRUE),
                    tags         |-> DictSet(st.tags, tag, pii_text),
                    persons      |-> IF isPerson THEN DictSet(st.persons, pii_text, tag)
                                     ELSE st.persons,
                    type_max     |-> IF isPerson THEN st.type_max
                                     ELSE DictSet(st.type_max, etype, tn),
                    initials_max |-> IF isPerson
                                     THEN DictSet(st.initials_max, initials, pn)
                                     ELSE st.initials_max,
                    applied      |-> st.applied + 1 ])

\* _apply_findings(text, mapping, findings)
_apply_findings(txt, mapping, findings) ==
  LET st == PatchApply(findings, 1,
              [ patched      |-> txt,
                tags         |-> mapping.tags,
                persons      |-> mapping.persons,
                type_max     |-> TypeMax(mapping.tags, 1, << >>),
                initials_max |-> InitialsMax(mapping.tags, 1, << >>),
                applied      |-> 0 ])
  IN  [ text    |-> st.patched,
        mapping |-> [ tags |-> st.tags, persons |-> st.persons ] ]

\* ------------------------------------------------------------------------
\* sharder.py: neutralize_tags
\* ------------------------------------------------------------------------
\* _letter_suffix(n): 0->A ... 25->Z, 26->AA
_letter_suffix(n) ==
  IF n < 26 THEN << UpperSeq[n + 1] >>
  ELSE << UpperSeq[n \div 26], UpperSeq[(n % 26) + 1] >>

\* re.match(r"^[A-Z]+\d*$", tag.strip("<>"))
IsPersonInner(tag) ==
  LET inner == StripChars(tag, {"<", ">"})
      u     == RunEnd(inner, 0, UpperSet)
  IN  u > 0 /\ RunEnd(inner, u, DigitSet) = Len(inner)

PersonLit == << "P","E","R","S","O","N" >>

\* f"<<{entity_type}_{suffix}>>"
NeutralTag(typeChars, i) ==
  << "<", "<" >> \o typeChars \o << "_" >> \o _letter_suffix(i) \o << ">", ">" >>

\* reverse_map (lines 67-76) as a dict neutral tag -> original tag
ReverseMap(tags) ==
  LET keys        == KeySet(tags)
      person_tags == SortLex({ k \in keys : IsPersonInner(k) })
      typedKeys   == { k \in keys : ~IsPersonInner(k) /\ TypedTagParse(k) # << >> }
      types       == SortLex({ TypedTagParse(k)[1][1] : k \in typedKeys })
      ofType(ty)  == SortLex({ k \in typedKeys : TypedTagParse(k)[1][1] = ty })
  IN  [ i \in 1..Len(person_tags) |-> << NeutralTag(PersonLit, i - 1), person_tags[i] >> ]
        \o Concat([ j \in 1..Len(types) |->
                      [ i \in 1..Len(ofType(types[j])) |->
                          << NeutralTag(types[j], i - 1), ofType(types[j])[i] >> ] ])

RECURSIVE InsertByValueLen(_, _)
InsertByValueLen(s, x) ==
  IF s = << >> THEN << x >>
  ELSE IF Len(Head(s)[2]) >= Len(x[2]) THEN << Head(s) >> \o InsertByValueLen(Tail(s), x)
  ELSE << x >> \o s

RECURSIVE SortValueLenDesc(_)
\* sorted(reverse_map.items(), key=lambda x: len(x[1]), reverse=True)
SortValueLenDesc(s) ==
  IF s = << >> THEN << >>
  ELSE InsertByValueLen(SortValueLenDesc(SubSeq(s, 1, Len(s) - 1)), s[Len(s)])

RECURSIVE NeutralizeFrom(_, _, _)
NeutralizeFrom(result, items, i) ==
  IF i > Len(items) THEN result
  ELSE NeutralizeFrom(ReplaceAll(result, items[i][2], items[i][1], FALSE), items, i + 1)

\* neutralize_tags(text, mapping): the neutralized text
neutralize_tags(txt, mapping) ==
  NeutralizeFrom(txt, SortValueLenDesc(ReverseMap(mapping.tags)), 1)

\* ------------------------------------------------------------------------
\* sharder.py: shard_text, shuffle_shards; canary.py
\* ------------------------------------------------------------------------
_MAX_SHARD_CHARS == 800

_MIN_SENTENCE_WORDS == 5

\* t.lstrip()
LStrip(t) == Slice(t, RunEnd(t, 0, SpaceSet), Len(t))

\* t.strip()
Strip(t) ==
  LET nonspace == { j \in 1..Len(t) : ~IsSpace(t[j]) }
  IN  IF nonspace = {} THEN << >> ELSE SubSeq(t, MinOf(nonspace), MaxOf(nonspace))

\* str(uuid.uuid4()) of the n-th shard made: a fresh string
ShardId(n) == << "u" >> \o IntStr(n)

RECURSIVE SentencesFrom(_, _)
\* doc.sents from offset i, for an nlp that ends a sentence at a full stop
\* that whitespace or the end of the text follows: (text, start_char, end_char)
SentencesFrom(t, i) ==
  LET starts == { j \in i..(Len(t) - 1) : ~IsSpace(t[j + 1]) }
      a      == MinOf(starts)
      stops  == { j \in (a + 1)..Len(t) :
                    t[j] = "." /\ (j = Len(t) \/ IsSpace(t[j + 1])) }
      e      == IF stops = {} THEN MaxOf({ j \in 1..Len(t) : ~IsSpace(t[j]) })
                ELSE MinOf(stops)
  IN  IF starts = {} THEN << >>
      ELSE << [ text |-> Slice(t, a, e), start |-> a, end |-> e ] >>
             \o SentencesFrom(t, e)

RECURSIVE MergeShort(_, _, _, _)
\* lines 106-113: a sentence of fewer than _MIN_SENTENCE_WORDS words joins
\* its predecessor
MergeShort(t, raw, i, merged) ==
  IF i > Len(raw) THEN merged
  ELSE IF merged # << >> /\ Len(Split(raw[i].text)) < _MIN_SENTENCE_WORDS
  THEN LET prev_start == merged[Len(merged)].start
       IN  MergeShort(t, raw, i + 1,
             SubSeq(merged, 1, Len(merged) - 1)
               \o << [ text  |-> Slice(t, prev_start, raw[i].end),
                       start |-> prev_start,
                       end   |-> raw[i].end ] >>)
  ELSE MergeShort(t, raw, i + 1, Append(merged, raw[i]))

\* a splitter that leaves an over-long chunk in one piece
CapSplitWhole(remaining, pos) ==
  IF remaining = << >> THEN << >>
  ELSE << [ text |-> remaining, start |-> pos, end |-> pos + Len(remaining) ] >>

RECURSIVE CapSplitSkip(_, _)
\* a splitter that takes the character at the cut for the blank it cut at
CapSplitSkip(remaining, pos) ==
  IF remaining = << >> THEN << >>
  ELSE IF Len(remaining) <= _MAX_SHARD_CHARS
  THEN << [ text |-> remaining, start |-> pos, end |-> pos + Len(remaining) ] >>
  ELSE LET spaces   == { j \in 0..(_MAX_SHARD_CHARS - 1) : remaining[j + 1] = " " }
           split_at == IF spaces = {} \/ MaxOf(spaces) <= 0
                       THEN _MAX_SHARD_CHARS ELSE MaxOf(spaces)
       IN  << [ text  |-> Slice(remaining, 0, split_at),
                start |-> pos,
                end   |-> pos + split_at ] >>
             \o CapSplitSkip(LStrip(Slice(remaining, split_at + 1, Len(remaining))),
                             pos + split_at + 1)

RECURSIVE CapSplit(_, _)
\* lines 122-136: the while loop that cuts an over-long chunk
CapSplit(remaining, pos) ==
  IF remaining = << >> THEN << >>
  ELSE IF Len(remaining) <= _MAX_SHARD_CHARS
  THEN << [ text |-> remaining, start |-> pos, end |-> pos + Len(remaining) ] >>
  ELSE LET spaces   == { j \in 0..(_MAX_SHARD_CHARS - 1) : remaining[j + 1] = " " }
           split_at == IF spaces = {} \/ MaxOf(spaces) <= 0
                       THEN _MAX_SHARD_CHARS ELSE MaxOf(spaces)
       IN  << [ text  |-> Slice(remaining, 0, split_at),
                start |-> pos,
                end   |-> pos + split_at ] >>
             \o CapSplit(LStrip(Slice(remaining, split_at, Len(remaining))),
                         pos + split_at + 1)

\* shard_text lines 97-148 for the sentences raw that nlp found in the text:
\* the shards, with ids in the order they are made
ShardSentences(t, raw) ==
  LET merged   == MergeShort(t, raw, 1, << >>)
      capped   == Concat([ i \in 1..Len(merged) |->
                    IF Len(merged[i].text) <= _MAX_SHARD_CHARS
                    THEN << merged[i] >>
                    ELSE CapSplit(merged[i].text, merged[i].start) ])
      NonEmpty(c) == Strip(c.text) # << >>
      kept     == SelectSeq(capped, NonEmpty)
  IN  IF raw = << >>
      THEN (IF Strip(t) # << >>
            THEN << [ id |-> ShardId(1), text |-> Strip(t), start |-> 0,
                      end |-> Len(t), is_canary |-> FALSE ] >>
            ELSE << >>)
      ELSE [ i \in 1..Len(kept) |->
               [ id |-> ShardId(i), text |-> Strip(kept[i].text),
                 start |-> kept[i].start, end |-> kept[i].end,
                 is_canary |-> FALSE ] ]

\* shard_text(text, nlp)
shard_text(t) == ShardSentences(t, SentencesFrom(t, 0))

\* generate_canaries(count) is called with its default count
CanaryCount == 3

\* generate_canaries(): CanaryCount synthetic shards after made real ones;
\* the text faker draws is a fixed sentence here
CanaryShards(made) ==
  [ i \in 1..CanaryCount |->
      [ id |-> ShardId(made + i),
        text |-> << "B", "o", "b", " ", "R", "a", "y", " " >> \o IntStr(i),
        start |-> -1, end |-> -1, is_canary |-> TRUE ] ]

\* CanarySet.ids
CanaryIds(shards) ==
  { shards[i].id : i \in { j \in 1..Len(shards) : shards[j].is_canary } }

\* a shuffle that draws every position independently, so that a shard may
\* come twice and another not at all
ShuffleWithRepeats(shards) ==
  { [ i \in 1..Len(shards) |-> shards[p[i]] ] :
      p \in [1..Len(shards) -> 1..Len(shards)] }

\* the lists secrets.SystemRandom().shuffle may leave: every order
shuffle_shards(shards) ==
  { [ i \in 1..Len(shards) |-> shards[p[i]] ] :
      p \in { q \in [1..Len(shards) -> 1..Len(shards)] :
                \A i, j \in 1..Len(shards) : i # j => q[i] # q[j] } }

\* ------------------------------------------------------------------------
\* The pipeline as a state machine (main.py lines 396-430)
\* ------------------------------------------------------------------------
VARIABLES
  text0,        \* the extracted input text
  entities,     \* the entity list the detector returned for text0
  blocklist,    \* the loaded blocklist (lower-cased entries)
  pc,           \* "start", "redacted", "staged", "restored", "verify_post",
                \* "verified", "or_post", "checked", "sharded", "detected"
  text,         \* the current redacted text
  mapping,      \* the current mapping [tags, persons]
  pre,          \* text and mapping handed to the stage that ran last
  lastOp,       \* the stage that ran last
  findings,     \* the findings the last cloud response or patch step carried
  stages,       \* number of audit / patch / OpenRouter stages run so far
  restored,     \* result of restore
  neutral,      \* neutral_text of the cloud stage: the text that is sharded
  request,      \* the shards of the request being POSTed
  canary_ids,   \* canary_set.ids
  attempt,      \* the loop variable of the client's retry loop
  todo,         \* the batches not yet sent (OpenRouter)
  all_findings, \* openrouter_verify_and_patch's all_findings
  errors,       \* the categories of the client errors the stage has logged
  responses,    \* what each POST of the client call in progress was answered
  waits,        \* the time.sleep durations of the client call in progress
  calls,        \* the finished client calls of the stage: what they POSTed,
                \* how they slept and how they ended
  sentences,    \* doc.sents, when shard_text is run on its own
  candidates,   \* detect_pii's combined list, before it is sorted
  invocation,   \* the entry point, its command line and settings.conf
  settings,     \* the Settings resolve_settings returned
  trace,        \* the stages the entry point has run, in order
  _blocklist_cache, \* validation._blocklist_cache: 0 for None, or the number
                \* of the set object it refers to
  sets,         \* the set objects made by set() so far: what each holds
  callers,      \* the threads that call _get_blocklist: where each is in
                \* the function, the operand it loaded, what it returned
  _processing,  \* PIIBuddyMenuBar._processing
  _last_mapping_path, \* whether _last_mapping_path is set and exists
  jobs,         \* the background threads the menu callbacks have started
  clicks,       \* the menu requests so far: what each found and did
  objects,      \* the dict objects of the stage that ran last, the mapping
                \* object it was passed and the one it returned
  validated     \* what validate_entities returned for entities

vars == << text0, entities, blocklist, pc, text, mapping, pre, lastOp,
           findings, stages, restored, neutral, request, canary_ids, attempt,
           todo, all_findings, errors, responses, waits, calls, sentences,
           candidates, invocation, settings, trace, _blocklist_cache, sets,
           callers, _processing, _last_mapping_path, jobs, clicks, objects,
           validated >>

\* the state that threads share
threads == << _blocklist_cache, sets, callers, _processing, _last_mapping_path,
              jobs, clicks >>

\* the state of a cloud stage and of the operations run on their own
wire == << neutral, request, canary_ids, attempt, todo, all_findings, errors,
           responses, waits, calls, sentences, candidates, validated >>

cloud == << wire, threads, objects >>

\* the state of the operations that are also run on their own
alone == << sentences, candidates, invocation, settings, trace, threads,
            objects, validated >>

\* the state of an entry point's run
run == << invocation, settings, trace >>

\* --- bounds ---------------------------------------------------------------
\* phrases of a document of the local pipeline
MaxTokens == 3

\* audit / patch stages of one run
MaxStages == 2

\* phrases of a document sent to the Verify API
MaxVerifyTokens == 2

\* sentences of a document sent to OpenRouter
MaxSentences == 6

\* --- the inputs -------------------------------------------------------------
Ann == << "A", "n", "n" >>

Lee == << "L", "e", "e" >>

AnnLee == Ann \o << " " >> \o Lee

Date == << "5", "/", "5" >>

\* the phrases a document is made of
Vocabulary == << AnnLee, Lee, << "a", "n", "d" >>, Date >>

RECURSIVE JoinTokens(_)
\* " ".join(tokens)
JoinTokens(toks) ==
  IF toks = << >> THEN << >>
  ELSE IF Len(toks) = 1 THEN toks[1]
  ELSE toks[1] \o << " " >> \o JoinTokens(Tail(toks))

RECURSIVE TokenStart(_, _)
\* offset of phrase i in JoinTokens(toks)
TokenStart(toks, i) ==
  IF i = 1 THEN 0 ELSE TokenStart(toks, i - 1) + Len(toks[i - 1]) + 1

\* What the detector may report on a phrase sequence: m[i] says whether
\* phrase i is reported (a name as a PERSON, a date as a DOB).
MarksOf(toks) ==
  { m \in [1..Len(toks) -> BOOLEAN] :
      \A i \in 1..Len(toks) : m[i] => toks[i] \in {AnnLee, Lee, Date} }

EntityAt(toks, i) ==
  LET a == TokenStart(toks, i)
  IN  [ text  |-> toks[i],
        label |-> IF toks[i] = Date THEN "DOB" ELSE "PERSON",
        start |-> a,
        end   |-> a + Len(toks[i]) ]

RECURSIVE EntitiesFrom(_, _, _)
EntitiesFrom(toks, m, i) ==
  IF i > Len(toks) THEN << >>
  ELSE (IF m[i] THEN << EntityAt(toks, i) >> ELSE << >>)
         \o EntitiesFrom(toks, m, i + 1)

TokenSeqs(maxLen) == UNION { [1..n -> 1..Len(Vocabulary)] : n \in 1..maxLen }

\* what the cloud service may report: each finding is a text and a type
FindingLists ==
  { << [ shard_id |-> << >>, text |-> Lee, entity_type |-> "PERSON" ] >>,
    << [ shard_id |-> << >>, text |-> Date, entity_type |-> "DOB" ],
       [ shard_id |-> << >>, text |-> AnnLee, entity_type |-> "PERSON" ] >> }

Blocklists == { { << "l", "e", "e", " ", "a", "n", "n" >> } }

NoMapping == [ tags |-> << >>, persons |-> << >> ]

\* the values of output_format
Txt == << "t", "x", "t" >>

Same == << "s", "a", "m", "e" >>

\* Settings.defaults(): the fields the entry points and resolve_settings'
\* requirements read
SettingsDefaults ==
  [ output_format |-> Txt, overwrite |-> FALSE, verify_enabled |-> FALSE,
    verify_api_key |-> << >>, audit_enabled |-> TRUE,
    openrouter_enabled |-> FALSE, openrouter_api_key |-> << >> ]

\* the keyword arguments of resolve_settings at their defaults; an argument
\* whose default is None is the empty set, and holds its value otherwise
CliDefaults ==
  [ same_format |-> FALSE, overwrite |-> FALSE, verify |-> FALSE,
    verify_key |-> {}, no_audit |-> FALSE, openrouter |-> FALSE,
    openrouter_key |-> {} ]

\* a settings.conf without options: an option that is not set is the empty
\* set, and holds its raw value otherwise
NoOptions ==
  [ output_format |-> {}, overwrite |-> {}, verify_enabled |-> {},
    verify_api_key |-> {}, audit_enabled |-> {}, openrouter_enabled |-> {},
    openrouter_api_key |-> {} ]

\* no dict object yet: dicts holds what each dict of tags or persons holds,
\* maps the dicts a mapping object refers to under "tags" and "persons",
\* passed and returned the mapping objects a stage was called with and
\* returned (0 for none)
NoObjects == [ dicts |-> << >>, maps |-> << >>, passed |-> 0, returned |-> 0 ]

\* threads that call _get_blocklist at the same time
MaxThreads == 2

Threads == 1..MaxThreads

\* a thread that has not called _get_blocklist yet: file is the blocklist
\* file it is at, ref the operand it loaded for |=, and returned, none and
\* value say whether its call has returned, whether it returned None, and
\* what the set it returned held at that moment
Outside ==
  [ at |-> "outside", file |-> 0, ref |-> 0, returned |-> FALSE, none |-> FALSE,
    value |-> {} ]

\* everything but the document and its entities, as a run starts
InitRun ==
  /\ blocklist \in Blocklists
  /\ pc = "start"
  /\ text = << >>
  /\ mapping = NoMapping
  /\ pre = [ text |-> << >>, mapping |-> NoMapping ]
  /\ lastOp = "none"
  /\ findings = << >>
  /\ stages = 0
  /\ restored = << >>
  /\ neutral = << >>
  /\ request = << >>
  /\ canary_ids = {}
  /\ attempt = 0
  /\ todo = << >>
  /\ all_findings = << >>
  /\ errors = << >>
  /\ responses = << >>
  /\ waits = << >>
  /\ calls = << >>
  /\ sentences = << >>
  /\ candidates = << >>
  /\ invocation = [ entry |-> "none", cli |-> CliDefaults, file |-> NoOptions ]
  /\ settings = SettingsDefaults
  /\ trace = << >>
  /\ _blocklist_cache = 0
  /\ sets = << >>
  /\ callers = [ t \in Threads |-> Outside ]
  /\ _processing = FALSE
  /\ _last_mapping_path = FALSE
  /\ jobs = << >>
  /\ clicks = << >>
  /\ objects = NoObjects
  /\ validated = << >>

\* a document of at most maxLen phrases and what the detector reports on it
InitDocument(maxLen) ==
  \E ts \in TokenSeqs(maxLen) :
    LET toks == [ i \in 1..Len(ts) |-> Vocabulary[ts[i]] ]
    IN  /\ text0 = JoinTokens(toks)
        /\ \E m \in MarksOf(toks) : entities = EntitiesFrom(toks, m, 1)

Init == InitDocument(MaxTokens) /\ InitRun

\* redacted_text, mapping = redact(text, entities)
Redact ==
  /\ pc = "start"
  /\ \E names \in NameOrders(PersonTexts(entities)) :
       \E r \in { redact(text0, entities, names) } :
         /\ text' = r.text
         /\ mapping' = r.mapping
  /\ pre' = [ text |-> text0, mapping |-> NoMapping ]
  /\ lastOp' = "redact"
  /\ pc' = "redacted"
  /\ UNCHANGED << text0, entities, blocklist, findings, stages, restored, cloud,
                  run >>

\* redacted_text, mapping = audit_redacted(redacted_text, mapping)
Audit ==
  /\ pc \in {"redacted", "staged"}
  /\ stages < MaxStages
  /\ \E r \in { audit_redacted(text, mapping, blocklist) } :
       /\ text' = r.text
       /\ mapping' = r.mapping
  /\ pre' = [ text |-> text, mapping |-> mapping ]
  /\ lastOp' = "audit"
  /\ pc' = "staged"
  /\ stages' = stages + 1
  /\ UNCHANGED << text0, entities, blocklist, findings, restored, cloud,
                  run >>

\* redacted_text, mapping = _apply_findings(redacted_text, mapping, findings)
Patch ==
  /\ pc \in {"redacted", "staged"}
  /\ stages < MaxStages
  /\ \E fs \in FindingLists :
       \E r \in { _apply_findings(text, mapping, fs) } :
         /\ text' = r.text
         /\ mapping' = r.mapping
         /\ findings' = fs
  /\ pre' = [ text |-> text, mapping |-> mapping ]
  /\ lastOp' = "patch"
  /\ pc' = "staged"
  /\ stages' = stages + 1
  /\ UNCHANGED << text0, entities, blocklist, restored, cloud,
                  run >>

\* restored = restore(text, mapping_path)
Restore ==
  /\ pc = "redacted"
  /\ restored' = restore(text, mapping)
  /\ pre' = [ text |-> text, mapping |-> mapping ]
  /\ lastOp' = "restore"
  /\ pc' = "restored"
  /\ UNCHANGED << text0, entities, blocklist, text, mapping, findings, stages,
                  cloud, run >>

Next == Redact \/ Audit \/ Patch \/ Restore

Spec == Init /\ [][Next]_vars

\* ------------------------------------------------------------------------
\* The Verify API stage: verifier.verify_and_patch, VerifyClient.verify
\* ------------------------------------------------------------------------
_MAX_RETRIES == 2

_RETRY_BACKOFF == 1

\* a client that sleeps the same time before every retry
BackoffFlat(n) == _RETRY_BACKOFF

\* time.sleep(_RETRY_BACKOFF * (attempt + 1))
Backoff(n) == _RETRY_BACKOFF * (n + 1)

\* a POST was answered 5xx or failed in transport and attempt < _MAX_RETRIES:
\* the loop sleeps and goes round again
CallRetries(category) ==
  /\ attempt' = attempt + 1
  /\ responses' = Append(responses, category)
  /\ waits' = Append(waits, Backoff(attempt))
  /\ calls' = calls

\* the 4xx status codes a POST may be answered with
ClientStatuses == {400, 401, 402, 429}

\* the status code of an answer of the given category that carries none the
\* client looks at
NoStatus == 0

NoError == [ class |-> "none", carries |-> {} ]

\* VerifyError(f"API error {code}: {body}") and VerifyError(f"Request
\* failed: {e}"): the class of the exception and the attributes it carries
\* besides its message
VerifyErrorFor(status) == [ class |-> "VerifyError", carries |-> {} ]

\* OpenRouterError(f"API error {code}: {body}") and its transport twin
OpenRouterErrorFor(status) == [ class |-> "OpenRouterError", carries |-> {} ]

\* the client call returns or raises on the answer `category` with the status
\* code `status`; raised is the category of the error that leaves the call
\* ("none" for a return) and error the exception itself
CallEnds(category, raised, status, error) ==
  /\ responses' = << >>
  /\ waits' = << >>
  /\ calls' = Append(calls, [ responses |-> Append(responses, category),
                              waits     |-> waits,
                              raised    |-> raised,
                              status    |-> status,
                              error     |-> error ])

\* the stage returns (t, m) to the pipeline, having logged errs
VerifyReturn(t, m, errs) ==
  /\ text' = t
  /\ mapping' = m
  /\ errors' = errs
  /\ pc' = "verified"
  /\ lastOp' = "verify"
  /\ request' = << >>
  /\ canary_ids' = {}
  /\ attempt' = 0

\* verify_and_patch lines 36-59: neutralize, shard, add canaries if the
\* setting asks for them and faker is there, shuffle, build the request
VerifyStart ==
  /\ pc \in {"redacted", "staged"}
  /\ pre' = [ text |-> text, mapping |-> mapping ]
  /\ neutral' = neutralize_tags(text, mapping)
  /\ errors' = << >>
  /\ findings' = << >>
  /\ responses' = << >>
  /\ waits' = << >>
  /\ calls' = << >>
  /\ LET shards == shard_text(neutralize_tags(text, mapping))
     IN  IF shards = << >>
         THEN /\ pc' = "verified"
              /\ lastOp' = "verify"
              /\ UNCHANGED << text, mapping, request, canary_ids, attempt >>
         ELSE /\ \E canaries \in { << >>, CanaryShards(Len(shards)) } :
                   /\ canary_ids' = CanaryIds(canaries)
                   /\ request' \in shuffle_shards(shards \o canaries)
              /\ attempt' = 0
              /\ pc' = "verify_post"
              /\ UNCHANGED << text, mapping, lastOp >>
  /\ UNCHANGED << alone, text0, entities, blocklist, stages, restored, todo,
                  all_findings >>

\* the ids a finding of the response may carry: the first real shard's, and
\* the first canary's when there is one
IdChoices ==
  LET real == { i \in 1..Len(request) : ~request[i].is_canary }
      fake == { i \in 1..Len(request) : request[i].is_canary }
  IN  { request[MinOf(real)].id }
        \cup (IF fake = {} THEN {} ELSE { request[MinOf(fake)].id })

\* the findings a 200 response may carry
CloudFindings ==
  { << >> } \cup
  { [ i \in 1..Len(fs) |-> [ fs[i] EXCEPT !.shard_id = sid[i] ] ] :
      fs \in FindingLists, sid \in [1..2 -> IdChoices] }

\* verifier.py lines 98-102, openrouter_verifier.py lines 75-79: the inputs
\* come back when there is nothing to apply
PatchWith(txt, m, found) ==
  IF found = << >> THEN [ text |-> txt, mapping |-> m ]
  ELSE _apply_findings(txt, m, found)

\* a filter that lets every finding through
AllFindings(found, ids) == found

\* lines 92-96: the findings of the response that are not a canary shard's
real_findings(found, ids) == SelectSeq(found, LAMBDA f : f.shard_id \notin ids)

\* the POST is answered 200: verify_and_patch lines 74-102
VerifyOk ==
  /\ pc = "verify_post"
  /\ \E fs \in CloudFindings :
       \E r \in { PatchWith(text, mapping, real_findings(fs, canary_ids)) } :
         /\ findings' = fs
         /\ VerifyReturn(r.text, r.mapping, errors)
  /\ CallEnds("ok", "none", NoStatus, NoError)
  /\ UNCHANGED << alone, text0, entities, blocklist, pre, stages, restored, neutral,
                  todo, all_findings >>

\* a handler that hands back the text it had sent out
OnVerifyErrorNeutral(redacted_text, m, neutral_text) ==
  [ text |-> neutral_text, mapping |-> m ]

\* lines 70-72: what verify_and_patch returns once it has caught VerifyError
OnVerifyError(redacted_text, m, neutral_text) ==
  [ text |-> redacted_text, mapping |-> m ]

\* the POST is answered 4xx: VerifyError at once (verify_client.py 109-114),
\* caught by verify_and_patch lines 70-72
VerifyClientError ==
  /\ pc = "verify_post"
  /\ \E r \in { OnVerifyError(text, mapping, neutral) } :
       VerifyReturn(r.text, r.mapping, Append(errors, "4xx"))
  /\ \E status \in ClientStatuses :
       CallEnds("4xx", "4xx", status, VerifyErrorFor(status))
  /\ UNCHANGED << alone, text0, entities, blocklist, pre, findings, stages, restored,
                  neutral, todo, all_findings >>

\* the POST is answered 5xx or fails in transport: the loop sleeps and goes
\* on while attempt < _MAX_RETRIES, and raises the last error after that
VerifyRetryable ==
  /\ pc = "verify_post"
  /\ \E category \in {"5xx", "transport"} :
       IF attempt < _MAX_RETRIES
       THEN /\ CallRetries(category)
            /\ UNCHANGED << text, mapping, errors, pc, lastOp, request,
                            canary_ids >>
       ELSE /\ CallEnds(category, category, NoStatus, VerifyErrorFor(NoStatus))
            /\ \E r \in { OnVerifyError(text, mapping, neutral) } :
                 VerifyReturn(r.text, r.mapping, Append(errors, category))
  /\ UNCHANGED << alone, text0, entities, blocklist, pre, findings, stages, restored,
                  neutral, todo, all_findings >>

InitVerify == InitDocument(MaxVerifyTokens) /\ InitRun

NextVerify ==
  Redact \/ Audit \/ VerifyStart \/ VerifyOk \/ VerifyClientError \/ VerifyRetryable

SpecVerify == InitVerify /\ [][NextVerify]_vars

\* ------------------------------------------------------------------------
\* The OpenRouter stage: openrouter_verifier.openrouter_verify_and_patch,
\* OpenRouterClient.check_pii
\* ------------------------------------------------------------------------
_BATCH_SIZE == 5

\* lines 51-54: shards[i : i + _BATCH_SIZE] for i = 0, _BATCH_SIZE, ...
Batches(shards) ==
  [ b \in 1..((Len(shards) + _BATCH_SIZE - 1) \div _BATCH_SIZE) |->
      SubSeq(shards, (b - 1) * _BATCH_SIZE + 1,
             IF b * _BATCH_SIZE < Len(shards) THEN b * _BATCH_SIZE ELSE Len(shards)) ]

Plain == << "a", " ", "b", " ", "c", " ", "d", " ", "e", "." >>

WithLee == << "a", " ", "b", " ", "c", " ", "d", " " >> \o Lee \o << "." >>

WithAnnLee == << "a", " ", "b", " ", "c", " " >> \o AnnLee \o << "." >>

\* sentence i of a document whose sentence u names Lee and whose sentence d
\* names Ann Lee
SentenceAt(i, u, d) == IF i = d THEN WithAnnLee ELSE IF i = u THEN WithLee ELSE Plain

\* a document of at most maxLen sentences of five words each; the detector
\* reports the full name and misses the lone surname
InitSentences(maxLen) ==
  \E n \in 1..maxLen : \E u \in 0..n : \E d \in 0..n :
    \E toks \in { [ i \in 1..n |-> SentenceAt(i, u, d) ] } :
      /\ (u = d => u = 0)
      /\ text0 = JoinTokens(toks)
      /\ entities = IF d = 0 THEN << >>
                    ELSE << [ text  |-> AnnLee, label |-> "PERSON",
                              start |-> TokenStart(toks, d) + 6,
                              end   |-> TokenStart(toks, d) + 6 + Len(AnnLee) ] >>

\* what the model may answer on one batch (_items_to_findings gives every
\* finding the shard_id "")
BatchFindings ==
  { << >>, << [ shard_id |-> << >>, text |-> Lee, entity_type |-> "PERSON" ] >> }

\* lines 39-61: neutralize, shard, batch; the first batch is sent
ORStart ==
  /\ pc = "redacted"
  /\ pre' = [ text |-> text, mapping |-> mapping ]
  /\ neutral' = neutralize_tags(text, mapping)
  /\ errors' = << >>
  /\ all_findings' = << >>
  /\ findings' = << >>
  /\ attempt' = 0
  /\ responses' = << >>
  /\ waits' = << >>
  /\ calls' = << >>
  /\ \E batches \in { Batches(shard_text(neutralize_tags(text, mapping))) } :
       IF batches = << >>
       THEN /\ pc' = "checked"
            /\ lastOp' = "openrouter"
            /\ UNCHANGED << request, todo >>
       ELSE /\ request' = Head(batches)
            /\ todo' = Tail(batches)
            /\ pc' = "or_post"
            /\ UNCHANGED lastOp
  /\ UNCHANGED << alone, text0, entities, blocklist, text, mapping, stages, restored,
                  canary_ids >>

\* the loop of lines 64-71 goes on to the next batch, or, after the last
\* one, lines 73-79 apply what was collected
ORNext(found, errs) ==
  /\ all_findings' = found
  /\ errors' = errs
  /\ attempt' = 0
  /\ IF todo # << >>
     THEN /\ request' = Head(todo)
          /\ todo' = Tail(todo)
          /\ UNCHANGED << text, mapping, pc, lastOp, findings >>
     ELSE /\ \E r \in { PatchWith(text, mapping, found) } :
               /\ text' = r.text
               /\ mapping' = r.mapping
          /\ findings' = found
          /\ request' = << >>
          /\ todo' = << >>
          /\ pc' = "checked"
          /\ lastOp' = "openrouter"

\* the POST of the batch is answered 200: line 68
OROk ==
  /\ pc = "or_post"
  /\ \E fs \in BatchFindings : ORNext(all_findings \o fs, errors)
  /\ CallEnds("ok", "none", NoStatus, NoError)
  /\ UNCHANGED << alone, text0, entities, blocklist, pre, stages, restored, neutral,
                  canary_ids >>

\* the POST is answered 4xx: OpenRouterError at once (openrouter_client.py
\* 110-115), logged at lines 69-71
ORClientError ==
  /\ pc = "or_post"
  /\ ORNext(all_findings, Append(errors, "4xx"))
  /\ \E status \in ClientStatuses :
       CallEnds("4xx", "4xx", status, OpenRouterErrorFor(status))
  /\ UNCHANGED << alone, text0, entities, blocklist, pre, stages, restored, neutral,
                  canary_ids >>

\* the POST is answered 5xx or fails in transport: check_pii sleeps and goes
\* on while attempt < _MAX_RETRIES, and raises the last error after that
ORRetryable ==
  /\ pc = "or_post"
  /\ \E category \in {"5xx", "transport"} :
       IF attempt < _MAX_RETRIES
       THEN /\ CallRetries(category)
            /\ UNCHANGED << text, mapping, pc, lastOp, findings, request, todo,
                            all_findings, errors >>
       ELSE /\ CallEnds(category, category, NoStatus, OpenRouterErrorFor(NoStatus))
            /\ ORNext(all_findings, Append(errors, category))
  /\ UNCHANGED << alone, text0, entities, blocklist, pre, stages, restored, neutral,
                  canary_ids >>

InitOR == InitSentences(MaxSentences) /\ InitRun

NextOR == Redact \/ ORStart \/ OROk \/ ORClientError \/ ORRetryable

SpecOR == InitOR /\ [][NextOR]_vars

\* ------------------------------------------------------------------------
\* The sharder on its own: sharder.shard_text under any sentence segmentation
\* ------------------------------------------------------------------------
\* pieces of a document handed to shard_text
MaxPieces == 2

\* a word of a tenth of _MAX_SHARD_CHARS characters
LongWord == [ i \in 1..(_MAX_SHARD_CHARS \div 10) |-> "w" ]

\* the pieces a document is made of: a one-word sentence, a five-word
\* sentence, one with a double blank, a sentence of twelve long words (longer
\* than _MAX_SHARD_CHARS, with blanks to cut at), one whose only blanks
\* before offset _MAX_SHARD_CHARS are followed by a second blank at the cut,
\* and a run without blanks that is longer than _MAX_SHARD_CHARS
Pieces ==
  << << "a", "b", "." >>,
     Plain,
     << "a", " ", " ", "b", " ", "c", " ", "d", " ", "e", " ", "f", "." >>,
     JoinTokens([ i \in 1..12 |-> LongWord ]) \o << "." >>,
     JoinTokens([ i \in 1..12 |->
                   IF i = 10
                   THEN [ k \in 1..(_MAX_SHARD_CHARS - 9 * Len(LongWord) - 10) |-> "v" ]
                          \o << " " >>
                   ELSE LongWord ]) \o << "." >>,
     [ i \in 1..(_MAX_SHARD_CHARS + 10) |-> "x" ] \o << "." >> >>

\* the offsets at which a word starts
WordStarts(t) ==
  { j \in 0..(Len(t) - 1) : ~IsSpace(t[j + 1]) /\ (j = 0 \/ IsSpace(t[j])) }

\* where nlp may start a sentence after the first: at a word that follows a
\* full stop, and at the second word of the text
CutChoices(t) ==
  { j \in WordStarts(t) :
      j > 0 /\ (\/ Cardinality({ k \in WordStarts(t) : k < j }) = 1
                \/ t[MaxOf({ k \in 1..j : ~IsSpace(t[k]) })] = ".") }

RECURSIVE SortInts(_)
SortInts(S) == IF S = {} THEN << >> ELSE << MinOf(S) >> \o SortInts(S \ {MinOf(S)})

\* doc.sents when the sentences start at the offsets of starts: each runs
\* to the last character before the next start that is not whitespace
SentencesAt(t, starts) ==
  [ k \in 1..Len(starts) |->
      LET a == starts[k]
          b == IF k < Len(starts) THEN starts[k + 1] ELSE Len(t)
          e == MaxOf({ j \in (a + 1)..b : ~IsSpace(t[j]) })
      IN  [ text |-> Slice(t, a, e), start |-> a, end |-> e ] ]

\* the documents: the empty text, and up to maxLen pieces with a blank
\* between them
InitPieces(maxLen) ==
  \E ps \in { << >> } \cup UNION { [1..n -> 1..Len(Pieces)] : n \in 1..maxLen } :
    /\ text0 = JoinTokens([ i \in 1..Len(ps) |-> Pieces[ps[i]] ])
    /\ entities = << >>

\* shards = shard_text(neutral_text, nlp), for any nlp
Shard ==
  /\ pc = "start"
  /\ \E cuts \in SUBSET CutChoices(text0) :
       \E starts \in { SortInts(cuts \cup { j \in WordStarts(text0) :
                                             \A k \in WordStarts(text0) : j <= k }) } :
         /\ sentences' = SentencesAt(text0, starts)
         /\ request' = ShardSentences(text0, SentencesAt(text0, starts))
  /\ neutral' = text0
  /\ pc' = "sharded"
  /\ lastOp' = "shard"
  /\ UNCHANGED << text0, entities, blocklist, text, mapping, pre, findings, stages,
                  restored, canary_ids, attempt, todo, all_findings, errors,
                  responses, waits, calls, candidates, invocation, settings,
                  trace, threads, objects, validated >>

InitShard == InitPieces(MaxPieces) /\ InitRun

NextShard == Shard

SpecShard == InitShard /\ [][NextShard]_vars

\* phrases of a document sent to both cloud services
MaxCloudTokens == 1

\* either cloud stage on a redacted, possibly audited, document
InitCloud == InitDocument(MaxCloudTokens) /\ InitRun

NextCloud ==
  \/ Redact
  \/ Audit
  \/ VerifyStart
  \/ VerifyOk
  \/ VerifyClientError
  \/ VerifyRetryable
  \/ ORStart
  \/ OROk
  \/ ORClientError
  \/ ORRetryable

SpecCloud == InitCloud /\ [][NextCloud]_vars

\* ------------------------------------------------------------------------
\* detector.py: detect_pii
\* ------------------------------------------------------------------------
\* regex matches of one detect_pii call
MaxRegexMatches == 2

\* named entities of doc.ents
MaxEnts == 1

\* matches of the header pattern
MaxHeaderMatches == 1

\* REGEX_PATTERNS: the labels, in the order of the list
REGEX_PATTERNS ==
  << "EMAIL", "PHONE", "SSN", "URL", "DOB", "ID_NUMBER", "ADDRESS" >>

\* the labels of doc.ents that detect_pii tells apart: a person, a date, and
\* one of those it collects in non_person_texts
NerLabels == { "PERSON", "DATE", "ORG" }

\* detect_pii: the labels whose texts go to non_person_texts
NonPersonLabels ==
  { "ORG", "GPE", "LOC", "NORP", "FAC", "PRODUCT", "WORK_OF_ART" }

\* _VAGUE_DATE_RE: the alternatives without their optional plural
VagueWords ==
  { << "y", "e", "a", "r" >>, << "m", "o", "n", "t", "h" >>,
    << "w", "e", "e", "k" >>, << "d", "a", "y" >>,
    << "p", "r", "e", "s", "e", "n", "t" >>,
    << "c", "u", "r", "r", "e", "n", "t" >>, << "t", "o", "d", "a", "y" >>,
    << "n", "o", "w" >>, << "a", "g", "o" >> }

\* _is_valid_person(text, non_person_labels)
_is_valid_person(t, non_person_labels) ==
  LET parts == Split(Strip(t))
  IN  /\ ~ \E i \in 1..Len(t) : t[i] = "@" \/ t[i] \in DigitSet
      /\ ~ \E i \in 1..Len(t) : t[i] = "\n"
      /\ parts # << >>
      /\ Len(parts) <= 5
      /\ ~ (Len(parts) = 1 /\ Len(parts[1]) <= 2)
      /\ t \notin non_person_labels

\* _is_specific_date(text)
_is_specific_date(t) ==
  /\ \E i \in 1..Len(t) : t[i] \in DigitSet
  /\ ~ \E w \in VagueWords : ContainsCI(t, w)
  /\ ~ \E i \in 1..Len(t) : t[i] = "\n"
  /\ ~ Contains(t, << " ", "-", " " >>)
  /\ ~ Contains(Lower(t), << " ", "t", "o", " " >>)
  /\ Len(t) <= 25

\* PIIEntity(text, label, start, end)
PIIEntity(t, label, start, end) ==
  [ text |-> t, label |-> label, start |-> start, end |-> end ]

\* str.title(): a letter is upper-cased after a character that is no letter,
\* and lower-cased after a letter
Title(t) ==
  [ i \in 1..Len(t) |->
      IF i = 1 \/ t[i - 1] \notin UpperSet \cup LowerSet
      THEN UpperChar(t[i]) ELSE LowerChar(t[i]) ]

\* _detect_allcaps_names: header = text[:500]
HeaderChars == 500

\* the ends of the words of t
WordEnds(t) ==
  { j \in 1..Len(t) : ~IsSpace(t[j]) /\ (j = Len(t) \/ IsSpace(t[j + 1])) }

\* the spans a match or a named entity may have here: from the start of a
\* word to the end of a word
WordSpans(t) == { sp \in WordStarts(t) \X WordEnds(t) : sp[1] < sp[2] }

\* what pattern.finditer, over the patterns of kinds in their order, or
\* doc.ents (one kind, any label) may yield on t: at most maxLen hits, the
\* kinds in ascending order, the spans of one kind from left to right and
\* disjoint
HitLists(t, kinds, tags, maxLen) ==
  UNION { { h \in [1..n -> kinds \X tags \X WordSpans(t)] :
              \A i \in 1..(n - 1) :
                \/ h[i][1] < h[i + 1][1]
                \/ /\ h[i][1] = h[i + 1][1]
                   /\ h[i][3][2] <= h[i + 1][3][1] } : n \in 0..maxLen }

\* detect_pii step 1: regex_entities
regex_entities(t, hits) ==
  [ i \in 1..Len(hits) |->
      PIIEntity(Slice(t, hits[i][3][1], hits[i][3][2]),
                REGEX_PATTERNS[hits[i][1]], hits[i][3][1], hits[i][3][2]) ]

\* detect_pii: regex_ranges
regex_ranges(regex) ==
  UNION { regex[i].start..(regex[i].end - 1) : i \in 1..Len(regex) }

\* detect_pii: non_person_texts
non_person_texts(t, ents) ==
  { Slice(t, ents[i][3][1], ents[i][3][2]) :
      i \in { j \in 1..Len(ents) : ents[j][2] \in NonPersonLabels } }

\* detect_pii step 2: spacy_entities
spacy_entities(t, ents, regex) ==
  LET kept == SelectSeq(ents, LAMBDA e :
                /\ (e[3][1]..(e[3][2] - 1)) \cap regex_ranges(regex) = {}
                /\ \/ /\ e[2] = "PERSON"
                      /\ _is_valid_person(Slice(t, e[3][1], e[3][2]),
                                          non_person_texts(t, ents))
                   \/ /\ e[2] = "DATE"
                      /\ _is_specific_date(Slice(t, e[3][1], e[3][2])))
  IN  [ i \in 1..Len(kept) |->
          PIIEntity(Slice(t, kept[i][3][1], kept[i][3][2]),
                    IF kept[i][2] = "PERSON" THEN "PERSON" ELSE "DOB",
                    kept[i][3][1], kept[i][3][2]) ]

\* _detect_allcaps_names(text), for the matches of its pattern in the header
_detect_allcaps_names(t, matches) ==
  LET named == SelectSeq(matches, LAMBDA m :
                 LET words == Split(Strip(Slice(t, m[3][1], m[3][2])))
                 IN  /\ m[3][2] <= HeaderChars
                     /\ Len(words) >= 2
                     /\ \A k \in 1..Len(words) : \A j \in 1..Len(words[k]) :
                          words[k][j] \in UpperSet \cup LowerSet)
  IN  [ i \in 1..Len(named) |->
          PIIEntity(Title(Strip(Slice(t, named[i][3][1], named[i][3][2]))),
                    "PERSON", named[i][3][1], named[i][3][2]) ]

\* the sort key of step 4, (e.start, -(e.end - e.start)): a sorts before b
KeyBefore(a, b) ==
  \/ a.start < b.start
  \/ a.start = b.start /\ a.end - a.start > b.end - b.start

RECURSIVE SortEntities(_)
\* entities.sort(key=...): stable, equal keys keep their order
SortEntities(s) ==
  IF s = << >> THEN << >>
  ELSE LET rest == SortEntities(SubSeq(s, 1, Len(s) - 1))
           last == s[Len(s)]
           k    == Cardinality({ i \in 1..Len(rest) : ~KeyBefore(last, rest[i]) })
       IN  SubSeq(rest, 1, k) \o << last >> \o SubSeq(rest, k + 1, Len(rest))

\* a sweep that keeps every entity
KeepAll(s, last_end) == s

RECURSIVE deduped(_, _)
\* detect_pii step 4: the sweep over the sorted list
deduped(s, last_end) ==
  IF s = << >> THEN << >>
  ELSE IF s[1].start >= last_end
       THEN << s[1] >> \o deduped(Tail(s), s[1].end)
       ELSE deduped(Tail(s), last_end)

\* the document detect_pii is run on
DetectText == AnnLee \o << " ", "1", "2" >>

\* detect_pii(text), whatever the patterns and nlp find
Detect ==
  /\ pc = "start"
  /\ \E hits \in HitLists(text0, 1..Len(REGEX_PATTERNS), {"re"}, MaxRegexMatches),
        ents \in HitLists(text0, {1}, NerLabels, MaxEnts),
        matches \in HitLists(text0, {1}, {"re"}, MaxHeaderMatches) :
       \E regex \in { regex_entities(text0, hits) } :
         \E spacy \in { spacy_entities(text0, ents, regex) },
            allcaps \in { _detect_allcaps_names(text0, matches) } :
           /\ candidates' = [ regex |-> regex, spacy |-> spacy,
                              allcaps |-> allcaps ]
           /\ entities' = deduped(SortEntities(regex \o spacy \o allcaps), -1)
  /\ pc' = "detected"
  /\ lastOp' = "detect"
  /\ UNCHANGED << text0, blocklist, text, mapping, pre, findings, stages,
                  restored, neutral, request, canary_ids, attempt, todo,
                  all_findings, errors, responses, waits, calls, sentences,
                  invocation, settings, trace, threads, objects, validated >>

InitDetect == text0 = DetectText /\ entities = << >> /\ InitRun

NextDetect == Detect

SpecDetect == InitDetect /\ [][NextDetect]_vars

\* ------------------------------------------------------------------------
\* settings.py: resolve_settings; the entry points (main.py, watcher.py,
\* menubar.py)
\* ------------------------------------------------------------------------
\* CLI flags given on one command line
MaxFlags == 1

\* options set in settings.conf
MaxOptions == 1

\* phrases of a document an entry point is run on
MaxEntryTokens == 1

\* the API keys a command line or settings.conf may hold
KeyTexts == { << >>, << " " >>, << "k" >> }

\* the command lines: at most maxLen flags given
Clis(maxLen) ==
  { c \in [ same_format : BOOLEAN, overwrite : BOOLEAN, verify : BOOLEAN,
            verify_key : { {} } \cup { { k } : k \in KeyTexts },
            no_audit : BOOLEAN, openrouter : BOOLEAN,
            openrouter_key : { {} } \cup { { k } : k \in KeyTexts } ] :
      Cardinality({ f \in DOMAIN c : c[f] # CliDefaults[f] }) <= maxLen }

\* the settings.conf files: at most maxLen options set
ConfFiles(maxLen) ==
  { f \in [ output_format : { {}, { Txt }, { Same } },
            overwrite : { {}, { "true" }, { "false" } },
            verify_enabled : { {}, { "true" }, { "false" } },
            verify_api_key : { {} } \cup { { k } : k \in KeyTexts },
            audit_enabled : { {}, { "true" }, { "false" } },
            openrouter_enabled : { {}, { "true" }, { "false" } },
            openrouter_api_key : { {} } \cup { { k } : k \in KeyTexts } ] :
      Cardinality({ o \in DOMAIN f : f[o] # {} }) <= maxLen }

\* ConfigParser.getboolean
getboolean(v) == v \in { "1", "yes", "true", "on" }

\* load_config_file(base_dir): the values found, strings stripped and
\* booleans parsed
load_config_file(file) ==
  [ output_format |-> { Strip(v) : v \in file.output_format },
    overwrite |-> { getboolean(v) : v \in file.overwrite },
    verify_enabled |-> { getboolean(v) : v \in file.verify_enabled },
    verify_api_key |-> { Strip(v) : v \in file.verify_api_key },
    audit_enabled |-> { getboolean(v) : v \in file.audit_enabled },
    openrouter_enabled |-> { getboolean(v) : v \in file.openrouter_enabled },
    openrouter_api_key |-> { Strip(v) : v \in file.openrouter_api_key } ]

\* the value of an option or argument that is set, default otherwise
ValueOr(option, default) ==
  IF option = {} THEN default ELSE CHOOSE v \in option : TRUE

\* resolve_settings lines 149-255: the three-tier merge, before the two
\* API key requirements are applied
MergeTiers(cli, conf) ==
  LET defaults  == SettingsDefaults
      overwrite == cli.overwrite \/ ValueOr(conf.overwrite, defaults.overwrite)
  IN  [ output_format |->
          IF overwrite \/ cli.same_format THEN Same
          ELSE ValueOr(conf.output_format, defaults.output_format),
        overwrite |-> overwrite,
        verify_enabled |->
          cli.verify \/ ValueOr(conf.verify_enabled, defaults.verify_enabled),
        verify_api_key |->
          ValueOr(cli.verify_key,
                  ValueOr(conf.verify_api_key, defaults.verify_api_key)),
        audit_enabled |->
          ~cli.no_audit /\ ValueOr(conf.audit_enabled, defaults.audit_enabled),
        openrouter_enabled |->
          cli.openrouter
            \/ ValueOr(conf.openrouter_enabled, defaults.openrouter_enabled),
        openrouter_api_key |->
          ValueOr(cli.openrouter_key,
                  ValueOr(conf.openrouter_api_key,
                          defaults.openrouter_api_key)) ]

\* a resolution that leaves a stage enabled whether or not it has a key
ResolveWithoutKeys(cli, conf) == MergeTiers(cli, conf)

\* resolve_settings(base_dir, cli_...), conf being load_config_file(base_dir)
resolve_settings(cli, conf) ==
  LET s == MergeTiers(cli, conf)
  IN  [ s EXCEPT
          !.verify_enabled = s.verify_enabled /\ s.verify_api_key # << >>,
          !.openrouter_enabled =
             s.openrouter_enabled /\ s.openrouter_api_key # << >> ]

\* the entry points: main with --paste or --clipboard, main with --once or in
\* watch mode (process_file), and the menu bar's _do_remove_pii
EntryPoints == { "paste", "file", "menubar" }

\* main lines 236-251, menubar.py lines 426-427: resolve_settings is called
\* with the command line's flags, and without any from the menu bar
Resolve ==
  /\ pc = "start"
  /\ \E entry \in EntryPoints, file \in ConfFiles(MaxOptions) :
       \E cli \in IF entry = "menubar" THEN { CliDefaults }
                  ELSE Clis(MaxFlags) :
         /\ invocation' = [ entry |-> entry, cli |-> cli, file |-> file ]
         /\ settings' = resolve_settings(cli, load_config_file(file))
  /\ pc' = "resolved"
  /\ lastOp' = "resolve"
  /\ UNCHANGED << text0, entities, blocklist, text, mapping, pre, findings,
                  stages, restored, cloud, trace >>

\* entities = detect_pii(text): main line 394, watcher.py line 94,
\* menubar.py lines 429-433 (which returns when there are none)
EntryDetect ==
  /\ pc = "resolved"
  /\ trace' = Append(trace, "Detector")
  /\ pc' = IF invocation.entry = "menubar" /\ entities = << >>
           THEN "stopped" ELSE "at_redact"
  /\ lastOp' = "detect"
  /\ UNCHANGED << text0, entities, blocklist, text, mapping, pre, findings,
                  stages, restored, cloud, invocation, settings >>

\* redacted_text, mapping = redact(text, entities): main line 396,
\* watcher.py line 98, menubar.py line 435
EntryRedact ==
  /\ pc = "at_redact"
  /\ \E names \in NameOrders(PersonTexts(entities)) :
       \E r \in { redact(text0, entities, names) } :
         /\ text' = r.text
         /\ mapping' = r.mapping
  /\ pre' = [ text |-> text0, mapping |-> NoMapping ]
  /\ trace' = Append(trace, "Redactor")
  /\ pc' = CASE invocation.entry = "paste" -> "at_audit"
             [] invocation.entry = "file" -> "at_save"
             [] invocation.entry = "menubar" -> "at_verify"
  /\ lastOp' = "redact"
  /\ UNCHANGED << text0, entities, blocklist, findings, stages, restored,
                  cloud, invocation, settings >>

\* main lines 399-404: Pass 2
EntryAudit ==
  /\ pc = "at_audit"
  /\ IF settings.audit_enabled
     THEN /\ \E r \in { audit_redacted(text, mapping, blocklist) } :
               /\ text' = r.text
               /\ mapping' = r.mapping
          /\ pre' = [ text |-> text, mapping |-> mapping ]
          /\ trace' = Append(trace, "Auditor")
          /\ lastOp' = "audit"
     ELSE UNCHANGED << text, mapping, pre, trace, lastOp >>
  /\ pc' = "at_openrouter"
  /\ UNCHANGED << text0, entities, blocklist, findings, stages, restored,
                  cloud, invocation, settings >>

\* what verify_and_patch or openrouter_verify_and_patch may return for the
\* findings it is left with: its inputs, or _apply_findings of them
CloudStage(stage) ==
  \E fs \in { << >> } \cup FindingLists :
    \E r \in { PatchWith(text, mapping, fs) } :
      /\ text' = r.text
      /\ mapping' = r.mapping
      /\ findings' = fs
      /\ trace' = trace \o (IF fs = << >> THEN << stage >>
                            ELSE << stage, "Patch" >>)
      /\ pre' = [ text |-> text, mapping |-> mapping ]

\* main lines 406-414: Pass 3
EntryOpenRouter ==
  /\ pc = "at_openrouter"
  /\ IF settings.openrouter_enabled /\ settings.openrouter_api_key # << >>
     THEN CloudStage("OpenRouter") /\ lastOp' = "openrouter"
     ELSE UNCHANGED << text, mapping, pre, findings, trace, lastOp >>
  /\ pc' = "at_verify"
  /\ UNCHANGED << text0, entities, blocklist, stages, restored, cloud,
                  invocation, settings >>

\* main lines 424-432, menubar.py lines 437-445: Pass 4
EntryVerify ==
  /\ pc = "at_verify"
  /\ IF settings.verify_enabled /\ settings.verify_api_key # << >>
     THEN CloudStage("Verifier") /\ lastOp' = "verify"
     ELSE UNCHANGED << text, mapping, pre, findings, trace, lastOp >>
  /\ pc' = "at_save"
  /\ UNCHANGED << text0, entities, blocklist, stages, restored, cloud,
                  invocation, settings >>

\* the redacted text and the mapping are written: main lines 434-457,
\* watcher.py lines 104-148, menubar.py lines 447-460
EntrySave ==
  /\ pc = "at_save"
  /\ pc' = "written"
  /\ UNCHANGED << text0, entities, blocklist, text, mapping, pre, lastOp,
                  findings, stages, restored, cloud, invocation, settings,
                  trace >>

InitEntry == InitDocument(MaxEntryTokens) /\ InitRun

NextEntry ==
  \/ Resolve
  \/ EntryDetect
  \/ EntryRedact
  \/ EntryAudit
  \/ EntryOpenRouter
  \/ EntryVerify
  \/ EntrySave

SpecEntry == InitEntry /\ [][NextEntry]_vars

\* ------------------------------------------------------------------------
\* Documents with typed literals and with several names
\* ------------------------------------------------------------------------
\* an ID_NUMBER_RE match, and a number the pattern does not match
IdNumber == << "D", "1", "2", "3", "4", "5", "6", "7" >>

Code == << "1", "2", "3", "4", "5" >>

\* a second date, and names of two and of three parts
Date2 == << "6", "/", "6" >>

AlLo == << "A", "l", " ", "L", "o" >>

AnnBoLee == Ann \o << " ", "B", "o", " " >> \o Lee

\* the label the detector gives a phrase it reports
PhraseLabel(p) ==
  IF p \in { Date, Date2 } THEN "DOB"
  ELSE IF p = IdNumber THEN "ID_NUMBER" ELSE "PERSON"

RECURSIVE PhraseEntities(_, _, _)
\* the entities of the phrases marked by m, from phrase i on
PhraseEntities(toks, m, i) ==
  IF i > Len(toks) THEN << >>
  ELSE (IF m[i]
        THEN << [ text  |-> toks[i], label |-> PhraseLabel(toks[i]),
                  start |-> TokenStart(toks, i),
                  end   |-> TokenStart(toks, i) + Len(toks[i]) ] >>
        ELSE << >>) \o PhraseEntities(toks, m, i + 1)

\* a document of at most maxLen phrases of vocabulary, of which the detector
\* reports any of those in reported
InitPhrases(vocabulary, reported, maxLen) ==
  \E ts \in UNION { [1..n -> 1..Len(vocabulary)] : n \in 1..maxLen } :
    \E toks \in { [ i \in 1..Len(ts) |-> vocabulary[ts[i]] ] } :
      /\ text0 = JoinTokens(toks)
      /\ \E m \in { f \in [1..Len(toks) -> BOOLEAN] :
                      \A i \in 1..Len(toks) : f[i] => toks[i] \in reported } :
           entities = PhraseEntities(toks, m, 1)

\* phrases of a document with typed literals
MaxTypedTokens == 2

\* what the cloud service may report on such a document
TypedFindingLists ==
  { << [ shard_id |-> << >>, text |-> Code, entity_type |-> "ID_NUMBER" ] >>,
    << [ shard_id |-> << >>, text |-> Code, entity_type |-> "DOB" ] >>,
    << [ shard_id |-> << >>, text |-> Lee, entity_type |-> "PERSON" ],
       [ shard_id |-> << >>, text |-> IdNumber, entity_type |-> "ID_NUMBER" ] >> }

\* redacted_text, mapping = _apply_findings(redacted_text, mapping, findings)
\* on a document with typed literals
PatchTyped ==
  /\ pc \in {"redacted", "staged"}
  /\ stages < MaxStages
  /\ \E fs \in TypedFindingLists :
       \E r \in { _apply_findings(text, mapping, fs) } :
         /\ text' = r.text
         /\ mapping' = r.mapping
         /\ findings' = fs
  /\ pre' = [ text |-> text, mapping |-> mapping ]
  /\ lastOp' = "patch"
  /\ pc' = "staged"
  /\ stages' = stages + 1
  /\ UNCHANGED << text0, entities, blocklist, restored, cloud, run >>

InitTyped ==
  /\ InitPhrases(<< IdNumber, Code, Date, Lee >>, { IdNumber, Date, Lee },
                 MaxTypedTokens)
  /\ InitRun

NextTyped == Redact \/ Audit \/ PatchTyped

SpecTyped == InitTyped /\ [][NextTyped]_vars

\* phrases of a document with several names
MaxNameTokens == 3

InitNames ==
  /\ InitPhrases(<< AnnBoLee, AnnLee, AlLo, Lee, Date, Date2 >>,
                 { AnnBoLee, AnnLee, AlLo, Lee, Date, Date2 }, MaxNameTokens)
  /\ InitRun

NextNames == Redact

SpecNames == InitNames /\ [][NextNames]_vars

\* ------------------------------------------------------------------------
\* The patch step on findings that arrive in any order
\* ------------------------------------------------------------------------
\* phrases of a document whose findings arrive in any order
MaxOrderTokens == 2

\* findings of one response
MaxFindings == 2

\* what the batches of one verification call may find on such a document
FoundOnce ==
  { [ shard_id |-> << >>, text |-> AnnLee, entity_type |-> "PERSON" ],
    [ shard_id |-> << >>, text |-> Lee, entity_type |-> "PERSON" ],
    [ shard_id |-> << >>, text |-> Date, entity_type |-> "DOB" ] }

\* the lists of n findings of F, each at most once, in every order
ListsOf(F, n) ==
  { fs \in [1..n -> F] : \A i, j \in 1..n : fs[i] = fs[j] => i = j }

\* redacted_text, mapping = _apply_findings(redacted_text, mapping, findings)
\* on the findings of the batches, in the order they were collected
PatchCollected ==
  /\ pc = "redacted"
  /\ \E n \in 1..MaxFindings :
       \E fs \in ListsOf(FoundOnce, n) :
         \E r \in { _apply_findings(text, mapping, fs) } :
           /\ text' = r.text
           /\ mapping' = r.mapping
           /\ findings' = fs
  /\ pre' = [ text |-> text, mapping |-> mapping ]
  /\ lastOp' = "patch"
  /\ pc' = "staged"
  /\ stages' = stages + 1
  /\ UNCHANGED << text0, entities, blocklist, restored, cloud, run >>

InitOrder == InitDocument(MaxOrderTokens) /\ InitRun

NextOrder == Redact \/ PatchCollected

SpecOrder == InitOrder /\ [][NextOrder]_vars

\* ------------------------------------------------------------------------
\* Both cloud stages on a document of several sentences
\* ------------------------------------------------------------------------
\* sentences of a document sent to both cloud services
MaxBatchSentences == 3

InitBatch == InitSentences(MaxBatchSentences) /\ InitRun

NextBatch ==
  \/ Redact
  \/ VerifyStart
  \/ VerifyOk
  \/ VerifyClientError
  \/ VerifyRetryable
  \/ ORStart
  \/ OROk
  \/ ORClientError
  \/ ORRetryable

SpecBatch == InitBatch /\ [][NextBatch]_vars

\* ------------------------------------------------------------------------
\* validation.py: _get_blocklist and reload_blocklist, called by threads
\* ------------------------------------------------------------------------
\* the state of one run of the pipeline
pipeline ==
  << text0, entities, blocklist, pc, text, mapping, pre, lastOp, findings, stages,
     restored, neutral, request, canary_ids, attempt, todo, all_findings, errors,
     responses, waits, calls, sentences, candidates, invocation, settings, trace,
     objects, validated >>

\* the state of the menu bar application
menubar == << _processing, _last_mapping_path, jobs, clicks >>

\* what _load_blocklist returns for person_blocklist.txt, custom_blocklist.txt
\* and user_blocklist.txt, in the order _get_blocklist reads them
BlocklistFiles ==
  << { << "c", "e", "o" >> }, { << "c", "t", "o" >> }, { << "c", "f", "o" >> } >>

\* thread t moves on to `at`, with the fields of `with` changed
Goes(t, at, with) ==
  callers' = [ callers EXCEPT ![t] =
                 [ f \in DOMAIN callers[t] |->
                     IF f = "at" THEN at
                     ELSE IF f \in DOMAIN with THEN with[f] ELSE callers[t][f] ] ]

\* thread t calls _get_blocklist()
CallGetBlocklist(t) ==
  /\ callers[t].at = "outside"
  /\ Goes(t, "test", << >>)
  /\ UNCHANGED << pipeline, menubar, _blocklist_cache, sets >>

\* line 84: if _blocklist_cache is None
TestCache(t) ==
  /\ callers[t].at = "test"
  /\ Goes(t, IF _blocklist_cache = 0 THEN "make" ELSE "return", << >>)
  /\ UNCHANGED << pipeline, menubar, _blocklist_cache, sets >>

\* line 85: _blocklist_cache = set()
MakeCache(t) ==
  /\ callers[t].at = "make"
  /\ sets' = Append(sets, {})
  /\ _blocklist_cache' = Len(sets) + 1
  /\ Goes(t, "load", [ file |-> 1 ])
  /\ UNCHANGED << pipeline, menubar >>

\* lines 88 and 90, _blocklist_cache |= ...: the global is read as the left
\* operand before _load_blocklist reads the file
LoadCache(t) ==
  /\ callers[t].at = "load"
  /\ Goes(t, "union", [ ref |-> _blocklist_cache ])
  /\ UNCHANGED << pipeline, menubar, _blocklist_cache, sets >>

\* lines 88 and 90: |= adds the file's entries to the set the operand refers
\* to, and raises TypeError when the operand is None
UnionFile(t) ==
  /\ callers[t].at = "union"
  /\ IF callers[t].ref = 0
     THEN /\ Goes(t, "TypeError", << >>)
          /\ UNCHANGED sets
     ELSE /\ sets' = [ sets EXCEPT ![callers[t].ref] =
                         @ \cup BlocklistFiles[callers[t].file] ]
          /\ Goes(t, "store", << >>)
  /\ UNCHANGED << pipeline, menubar, _blocklist_cache >>

\* lines 88 and 90: the result of |= is stored in the global; the loop of
\* line 87 and line 90 go on to the next file
StoreCache(t) ==
  /\ callers[t].at = "store"
  /\ _blocklist_cache' = callers[t].ref
  /\ IF callers[t].file < Len(BlocklistFiles)
     THEN Goes(t, "load", [ file |-> callers[t].file + 1 ])
     ELSE Goes(t, "return", << >>)
  /\ UNCHANGED << pipeline, menubar, sets >>

\* line 91: return _blocklist_cache
ReturnCache(t) ==
  /\ callers[t].at = "return"
  /\ Goes(t, "returned",
          [ returned |-> TRUE,
            none     |-> _blocklist_cache = 0,
            value    |-> IF _blocklist_cache = 0 THEN {} ELSE sets[_blocklist_cache] ])
  /\ UNCHANGED << pipeline, menubar, _blocklist_cache, sets >>

\* reload_blocklist(), lines 94-97, called by another thread
reload_blocklist ==
  /\ _blocklist_cache # 0
  /\ _blocklist_cache' = 0
  /\ UNCHANGED << pipeline, menubar, sets, callers >>

InitBlocklist == text0 = << >> /\ entities = << >> /\ InitRun

NextBlocklist ==
  \/ \E t \in Threads :
       \/ CallGetBlocklist(t)
       \/ TestCache(t)
       \/ MakeCache(t)
       \/ LoadCache(t)
       \/ UnionFile(t)
       \/ StoreCache(t)
       \/ ReturnCache(t)
  \/ reload_blocklist

SpecBlocklist == InitBlocklist /\ [][NextBlocklist]_vars

\* ------------------------------------------------------------------------
\* audit_redacted and _apply_findings on dict objects
\* ------------------------------------------------------------------------
\* phrases of a document whose mapping is passed as an object
MaxHeldTokens == 2

\* the tags and persons dicts the caller's mapping refers to, as objects
Held(m) ==
  [ dicts |-> << m.tags, m.persons >>, maps |-> << [ tags |-> 1, persons |-> 2 ] >>,
    passed |-> 1, returned |-> 0 ]

\* what the mapping object m holds
Deref(heap, m) ==
  [ tags    |-> heap.dicts[heap.maps[m].tags],
    persons |-> heap.dicts[heap.maps[m].persons] ]

\* tags = mapping["tags"]: the dict itself, not a copy of it
ShareDict(heap, d) == [ heap |-> heap, ref |-> d ]

\* dict(mapping.get("tags", {})), dict(mapping.get("persons", {})): a new
\* dict object with the entries of dict d
CopyDict(heap, d) ==
  [ heap |-> [ heap EXCEPT !.dicts = Append(@, heap.dicts[d]) ],
    ref  |-> Len(heap.dicts) + 1 ]

\* audit.py lines 149-150 and 202-205, verifier.py lines 109-110 and
\* 171-174: tags and persons are copies, the loop writes its entries (those
\* of st) to the copies, and updated_mapping = dict(mapping) is a new
\* mapping object that is made to refer to them
ReturnUpdated(heap, st) ==
  LET t == CopyDict(heap, heap.maps[heap.passed].tags)
      p == CopyDict(t.heap, t.heap.maps[heap.passed].persons)
      w == [ p.heap EXCEPT !.dicts[t.ref] = st.tags, !.dicts[p.ref] = st.persons ]
  IN  [ w EXCEPT !.maps = Append(@, [ tags |-> t.ref, persons |-> p.ref ]),
                 !.returned = Len(w.maps) + 1 ]

\* audit_redacted(redacted_text, mapping) on the objects of heap
AuditObjects(heap, redacted_text, bl) ==
  LET m  == Deref(heap, heap.passed)
      r  == audit_redacted(redacted_text, m, bl)
  IN  IF AuditFindings(redacted_text, m, bl) = << >>
      THEN [ heap EXCEPT !.returned = heap.passed ]
      ELSE ReturnUpdated(heap, r.mapping)

\* _apply_findings(text, mapping, findings) on the objects of heap
PatchObjects(heap, txt, found) ==
  ReturnUpdated(heap, _apply_findings(txt, Deref(heap, heap.passed), found).mapping)

\* redacted_text, mapping = audit_redacted(redacted_text, mapping)
AuditCall ==
  /\ pc \in {"redacted", "staged"}
  /\ stages < MaxStages
  /\ \E after \in { AuditObjects(Held(mapping), text, blocklist) } :
       /\ objects' = after
       /\ mapping' = Deref(after, after.returned)
  /\ text' = audit_redacted(text, mapping, blocklist).text
  /\ pre' = [ text |-> text, mapping |-> mapping ]
  /\ lastOp' = "audit"
  /\ pc' = "staged"
  /\ stages' = stages + 1
  /\ UNCHANGED << text0, entities, blocklist, findings, restored, wire, threads,
                  run >>

\* redacted_text, mapping = _apply_findings(redacted_text, mapping, findings)
PatchCall ==
  /\ pc \in {"redacted", "staged"}
  /\ stages < MaxStages
  /\ \E fs \in FindingLists :
       \E after \in { PatchObjects(Held(mapping), text, fs) } :
         /\ objects' = after
         /\ mapping' = Deref(after, after.returned)
         /\ text' = _apply_findings(text, mapping, fs).text
         /\ findings' = fs
  /\ pre' = [ text |-> text, mapping |-> mapping ]
  /\ lastOp' = "patch"
  /\ pc' = "staged"
  /\ stages' = stages + 1
  /\ UNCHANGED << text0, entities, blocklist, restored, wire, threads, run >>

InitObjects == InitDocument(MaxHeldTokens) /\ InitRun

NextObjects == Redact \/ AuditCall \/ PatchCall

SpecObjects == InitObjects /\ [][NextObjects]_vars

\* ------------------------------------------------------------------------
\* Documents with names that are part of a tag
\* ------------------------------------------------------------------------
\* phrases of a document with short names
MaxShortTokens == 2

\* one-part names: the initials of Ann Lee, and the start of the label DOB
Al == << "A", "l" >>

Do == << "D", "o" >>

InitShort ==
  /\ InitPhrases(<< AnnLee, Al, Do, Date >>, { AnnLee, Al, Do, Date }, MaxShortTokens)
  /\ InitRun

NextShort == Redact

SpecShort == InitShort /\ [][NextShort]_vars

\* ------------------------------------------------------------------------
\* validation.py: score_person_entity, validate_entities
\* ------------------------------------------------------------------------
\* candidates of one validate_entities call
MaxCandidates == 2

\* tokens of the document that lie in one candidate's span
MaxTagged == 3

\* MIN_PERSON_CONFIDENCE, in hundredths; the scores are sums of multiples of
\* 0.05 and are kept in hundredths throughout
MIN_PERSON_CONFIDENCE == 60

\* SECTION_HEADERS: the entries a candidate of the model can be
SECTION_HEADERS == { << "s", "u", "m", "m", "a", "r", "y" >>, << "s", "k", "i", "l", "l", "s" >>, << "e", "d", "u", "c", "a", "t", "i", "o", "n" >> }

NAME_PARTICLES ==
  { << "d", "e" >>, << "d", "e", "l" >>, << "d", "e", "l", "l", "a" >>, << "d", "i" >>,
    << "d", "a" >>, << "v", "a", "n" >>, << "v", "o", "n" >>, << "d", "e", "r" >>,
    << "d", "e", "n" >>, << "t", "e", "r" >>, << "t", "e" >>, << "l", "a" >>,
    << "l", "e" >>, << "b", "i", "n" >>, << "i", "b", "n" >>, << "a", "l" >>,
    << "e", "l" >> }

\* p is in t between two word boundaries; ci: as under re.IGNORECASE
HasPhrase(t, p, ci) ==
  \E i \in 0..(Len(t) - Len(p)) :
    MatchAt(t, p, i, ci) /\ StartBoundary(t, i) /\ EndBoundary(t, i + Len(p))

\* _is_job_title(text), for the titles a candidate of the model can hold:
\* Vice President (pattern 6), Scrum Master (4), Product Manager (3)
_is_job_title(t) ==
  \E p \in { << "v", "i", "c", "e", " ", "p", "r", "e", "s", "i", "d", "e", "n", "t" >>, << "s", "c", "r", "u", "m", " ", "m", "a", "s", "t", "e", "r" >>,
            << "p", "r", "o", "d", "u", "c", "t", " ", "m", "a", "n", "a", "g", "e", "r" >> } :
    HasPhrase(t, p, TRUE)

\* _is_certification(text), for the certifications a candidate of the model
\* can hold: PMP (pattern 3, case-sensitive), Six Sigma (9), Scrum Master (2)
_is_certification(t) ==
  \/ HasPhrase(t, << "P", "M", "P" >>, FALSE)
  \/ \E p \in { << "s", "i", "x", " ", "s", "i", "g", "m", "a" >>, << "s", "c", "r", "u", "m", " ", "m", "a", "s", "t", "e", "r" >> } :
       HasPhrase(t, p, TRUE)

\* _is_section_header(text)
_is_section_header(t) == Strip(Lower(t)) \in SECTION_HEADERS

RECURSIVE SplitOn(_, _)
\* part.split('-'): the pieces between the separators, empty ones included
SplitOn(t, sep) ==
  IF \A k \in 1..Len(t) : t[k] # sep THEN << t >>
  ELSE LET k == MinOf({ j \in 1..Len(t) : t[j] = sep })
       IN  << SubSeq(t, 1, k - 1) >> \o SplitOn(SubSeq(t, k + 1, Len(t)), sep)

\* one part of a name is capitalized as lines 119-131 ask
ProperPart(part) ==
  \/ Len(part) <= 2
  \/ Lower(part) \in NAME_PARTICLES
  \/ MatchAt(part, << "O", "'" >>, 0, FALSE)
  \/ MatchAt(part, << "M", "c" >>, 0, FALSE)
  \/ MatchAt(part, << "M", "a", "c" >>, 0, FALSE)
  \/ IF \E k \in 1..Len(part) : part[k] = "-"
     THEN \A sp \in { SplitOn(part, "-")[k] : k \in 1..Len(SplitOn(part, "-")) } :
            sp # << >> => sp[1] \in UpperSet
     ELSE part[1] \in UpperSet

\* _has_proper_name_capitalization(text)
_has_proper_name_capitalization(t) ==
  \A k \in 1..Len(Split(t)) : ProperPart(Split(t)[k])

\* what the document says of a candidate's span: how many tokens lie in it
\* and how many of them are tagged NNP or NNPS; raised when reading the
\* document raises
TaggedChoices ==
  { [ tokens |-> n, nnp |-> k, raised |-> r ] :
      n \in 0..MaxTagged, k \in 0..MaxTagged, r \in BOOLEAN } \cap
  { c \in [ tokens : 0..MaxTagged, nnp : 0..MaxTagged, raised : BOOLEAN ] :
      c.nnp <= c.tokens /\ (c.raised => c.tokens = 0) }

\* lines 174-185: nnp_ratio > 0.8 adds 0.2, nnp_ratio < 0.3 takes 0.2
PosScore(tagged) ==
  IF tagged.raised \/ tagged.tokens = 0 THEN 0
  ELSE IF 10 * tagged.nnp > 8 * tagged.tokens THEN 20
  ELSE IF 10 * tagged.nnp < 3 * tagged.tokens THEN -20
  ELSE 0

\* a word count scoring that takes nothing from a single word
WordCountFlat(parts) == IF Len(parts) \in 2..3 THEN 25 ELSE 0

\* lines 160-165: what the number of words adds to the score
WordCountScore(parts) ==
  IF Len(parts) \in 2..3 THEN 25
  ELSE IF Len(parts) = 1 THEN (IF Len(parts[1]) <= 3 THEN -35 ELSE -15)
  ELSE 0

\* max(0.0, min(1.0, score)), line 187
Clamp(score) == IF score < 0 THEN 0 ELSE IF score > 100 THEN 100 ELSE score

\* score_person_entity(entity, context), in hundredths; bl is what
\* _get_blocklist() returns and tagged what context.spacy_doc holds
score_person_entity(entity, non_person_labels, bl, tagged) ==
  LET t     == Strip(entity.text)
      parts == Split(t)
      words == WordCountScore(parts)
      title == IF _is_job_title(t) THEN -40 ELSE 0
      caps  == IF _has_proper_name_capitalization(t) THEN 0 ELSE -25
  IN  IF \/ Lower(t) \in bl
         \/ t \in non_person_labels
         \/ _is_section_header(t)
         \/ _is_certification(t)
         \/ \E k \in 1..Len(t) : t[k] \in {"@", "\n"} \cup DigitSet
         \/ Len(parts) = 0
         \/ Len(parts) > 5
      THEN 0
      ELSE Clamp(50 + words + title + caps + PosScore(tagged))

RECURSIVE ValidateFrom(_, _, _, _, _)
\* lines 209-218: the loop over the entities, from entity i on
ValidateFrom(ents, i, non_person_labels, bl, tagged) ==
  IF i > Len(ents) THEN << >>
  ELSE LET confidence ==
             IF ents[i].label = "PERSON"
             THEN score_person_entity(ents[i], non_person_labels, bl, tagged[i])
             ELSE 100
           kept == ents[i].label # "PERSON" \/ confidence >= MIN_PERSON_CONFIDENCE
       IN  (IF kept
            THEN << [ text |-> ents[i].text, label |-> ents[i].label,
                      start |-> ents[i].start, end |-> ents[i].end,
                      confidence |-> confidence ] >>
            ELSE << >>)
             \o ValidateFrom(ents, i + 1, non_person_labels, bl, tagged)

\* validate_entities(entities, text, doc, doc_type); orgs are the texts of
\* doc.ents labelled ORG, GPE, LOC, NORP, FAC, PRODUCT or WORK_OF_ART
validate_entities(ents, orgs, bl, tagged) == ValidateFrom(ents, 1, orgs, bl, tagged)

\* the texts detect_pii may label PERSON: one word of three letters, of five,
\* in lower case; two, three, four and six words; a title, a section header,
\* a certification, a hyphenated name, a blocklist entry, a company, a text
\* with a digit
PersonCandidates ==
  << Lee, << "J", "o", "n", "e", "s" >>, << "j", "o", "n", "e", "s" >>, AnnLee,
     << "a", "n", "n", " ", "l", "e", "e" >>, AnnBoLee,
     << "A", "n", "n", " ", "B", "o", " ", "L", "e", "e", " ", "J", "o", "n", "e", "s" >>,
     << "A", "n", "n", " ", "B", "o", " ", "L", "e", "e", " ", "A", "n", "n", " ", "B", "o", " ", "L", "e", "e" >>,
     << "V", "i", "c", "e", " ", "P", "r", "e", "s", "i", "d", "e", "n", "t" >>,
     << "S", "u", "m", "m", "a", "r", "y" >>, << "P", "M", "P" >>,
     << "A", "n", "n", "-", "L", "e", "e", " ", "J", "o", "n", "e", "s" >>,
     << "L", "e", "e", " ", "A", "n", "n" >>,
     << "A", "c", "m", "e", " ", "C", "o", "r", "p" >>,
     << "A", "n", "n", " ", "5" >> >>

\* validated = validate_entities(entities, text, doc)
Validate ==
  /\ pc = "start"
  /\ \E orgs \in { {}, { << "A", "c", "m", "e", " ", "C", "o", "r", "p" >> } },
        tagged \in [1..Len(entities) -> TaggedChoices] :
       validated' = [ kept  |-> validate_entities(entities, orgs, blocklist, tagged),
                      tagged |-> tagged, orgs |-> orgs ]
  /\ pc' = "validated"
  /\ lastOp' = "validate"
  /\ UNCHANGED << text0, entities, blocklist, text, mapping, pre, findings, stages,
                  restored, neutral, request, canary_ids, attempt, todo,
                  all_findings, errors, responses, waits, calls, sentences,
                  candidates, invocation, settings, trace, threads, objects >>

\* a document of at most MaxCandidates phrases, of which detect_pii labelled
\* the dates DOB and the others PERSON
InitValidate ==
  /\ \E ts \in UNION { [1..n -> 0..Len(PersonCandidates)] : n \in 1..MaxCandidates } :
       \E toks \in { [ i \in 1..Len(ts) |->
                         IF ts[i] = 0 THEN Date ELSE PersonCandidates[ts[i]] ] } :
         /\ text0 = JoinTokens(toks)
         /\ entities = PhraseEntities(toks, [ i \in 1..Len(toks) |-> TRUE ], 1)
  /\ InitRun

NextValidate == Validate

SpecValidate == InitValidate /\ [][NextValidate]_vars

\* ------------------------------------------------------------------------
\* menubar.py: the clipboard jobs of PIIBuddyMenuBar
\* ------------------------------------------------------------------------
\* requests (clicks on the two menu items or the dock menu) of one run
MaxRequests == 3

\* the way a job leaves its try block: _do_remove_pii returns on an empty
\* clipboard (lines 416-419) and on no entity (lines 430-433), reaches the end
\* (line 468) or raises into the except clause (lines 469-472); _do_restore
\* has no detection
JobPaths(target) ==
  IF target = "_do_remove_pii"
  THEN { "success", "empty", "no_pii", "exception" }
  ELSE { "success", "empty", "exception" }

\* the jobs whose thread has not left its finally clause
Running == { j \in 1..Len(jobs) : jobs[j].at # "ended" }

\* a handler that never finds the flag set
IgnoredNever == FALSE

\* if self._processing: return (lines 384-385 and 397-398)
Ignored == _processing

\* the handler has run: the click is logged with the flag it found
Clicked(item, outcome) ==
  clicks' = Append(clicks, [ request |-> item, busy |-> _processing,
                             running |-> Cardinality(Running),
                             outcome |-> outcome ])

\* threading.Thread(target=..., daemon=True).start()
ThreadStart(target) ==
  jobs' = Append(jobs, [ target |-> target, at |-> "try", path |-> "none" ])

\* _on_remove_pii(sender), on the main thread
_on_remove_pii ==
  /\ Len(clicks) < MaxRequests
  /\ IF Ignored
     THEN /\ Clicked("remove", "ignored")
          /\ UNCHANGED << _processing, jobs >>
     ELSE /\ _processing' = TRUE
          /\ ThreadStart("_do_remove_pii")
          /\ Clicked("remove", "started")
  /\ UNCHANGED << _last_mapping_path, pipeline, _blocklist_cache, sets, callers >>

\* _on_restore(_sender), on the main thread; exists is what
\* self._last_mapping_path.exists() answers
_on_restore ==
  /\ Len(clicks) < MaxRequests
  /\ \E exists \in BOOLEAN :
       IF Ignored
       THEN /\ Clicked("restore", "ignored")
            /\ UNCHANGED << _processing, jobs >>
       ELSE IF ~_last_mapping_path \/ ~exists
       THEN /\ Clicked("restore", "no_mapping")
            /\ UNCHANGED << _processing, jobs >>
       ELSE /\ _processing' = TRUE
            /\ ThreadStart("_do_restore")
            /\ Clicked("restore", "started")
  /\ UNCHANGED << _last_mapping_path, pipeline, _blocklist_cache, sets, callers >>

\* the try block of job j, with its except clause, on the job's thread
JobTry(j, target) ==
  /\ j \in 1..Len(jobs)
  /\ jobs[j].target = target
  /\ jobs[j].at = "try"
  /\ \E path \in JobPaths(target) :
       /\ jobs' = [ jobs EXCEPT ![j].at = "finally", ![j].path = path ]
       /\ _last_mapping_path' =
            IF target = "_do_remove_pii" /\ path = "success"
            THEN TRUE ELSE _last_mapping_path
  /\ UNCHANGED << _processing, clicks, pipeline, _blocklist_cache, sets, callers >>

\* the finally clause of job j: self._processing = False
JobFinally(j, target) ==
  /\ j \in 1..Len(jobs)
  /\ jobs[j].target = target
  /\ jobs[j].at = "finally"
  /\ _processing' = FALSE
  /\ jobs' = [ jobs EXCEPT ![j].at = "ended" ]
  /\ UNCHANGED << _last_mapping_path, clicks, pipeline, _blocklist_cache, sets,
                  callers >>

\* _do_remove_pii(sender): one step of a job's thread
_do_remove_pii ==
  \E j \in 1..MaxRequests :
    \/ JobTry(j, "_do_remove_pii")
    \/ JobFinally(j, "_do_remove_pii")

\* _do_restore(): one step of a job's thread
_do_restore ==
  \E j \in 1..MaxRequests :
    \/ JobTry(j, "_do_restore")
    \/ JobFinally(j, "_do_restore")

\* PIIBuddyMenuBar.__init__: no mapping, no job
InitMenu == text0 = << >> /\ entities = << >> /\ InitRun

NextMenu == _on_remove_pii \/ _on_restore \/ _do_remove_pii \/ _do_restore

SpecMenu == InitMenu /\ [][NextMenu]_vars

\* ------------------------------------------------------------------------
\* Properties of the local pipeline (redact, audit, patch, restore)
\* ------------------------------------------------------------------------
\* p occurs in t at an offset where it does not lie within an occurrence of a
\* key of tags
OccursOutsideTag(t, p, tags, ci) ==
  \E j \in 0..(Len(t) - Len(p)) :
    /\ MatchAt(t, p, j, ci)
    /\ ~ \E k \in KeySet(tags) :
           \E a \in 0..j : /\ MatchAt(t, k, a, FALSE)
                           /\ j + Len(p) <= a + Len(k)

\* entity i is the only entity that covers its span
Undetected(t, p, ents) ==
  \E j \in 0..(Len(t) - Len(p)) :
    /\ MatchAt(t, p, j, TRUE)
    /\ \A i \in 1..Len(ents) : ents[i].end <= j \/ j + Len(p) <= ents[i].start

\* C1: Reversibility.  Restoring the Redactor's output with the Redactor's own
\* mapping gives the input text back, up to letter case.
C1_Reversibility ==
  pc = "restored" => Lower(restored) = Lower(text0)

C3_Coreference ==
  pc \in {"redacted", "staged"} =>
    \A s \in KeySet(mapping.persons) :
      LET tag == DictGet(mapping.persons, s)
      IN  /\ DictHas(mapping.tags, tag)
          /\ DictHas(mapping.persons, DictGet(mapping.tags, tag))
          /\ DictGet(mapping.persons, DictGet(mapping.tags, tag)) = tag

\* an audit or a patch has put a new surface into a cluster that had one
C3_Witness ==
  /\ lastOp \in {"audit", "patch"}
  /\ \E s1 \in KeySet(mapping.persons) \ KeySet(pre.mapping.persons) :
       \E s2 \in KeySet(pre.mapping.persons) :
         DictGet(mapping.persons, s1) = DictGet(mapping.persons, s2)

\* the tag grammar: << [A-Z]+ [0-9]* >>
IsPersonTagKey(k) ==
  /\ Len(k) >= 5
  /\ Slice(k, 0, 2) = << "<", "<" >>
  /\ Slice(k, Len(k) - 2, Len(k)) = << ">", ">" >>
  /\ LET inner == Slice(k, 2, Len(k) - 2)
         u     == RunEnd(inner, 0, UpperSet)
     IN  u >= 1 /\ RunEnd(inner, u, DigitSet) = Len(inner)

\* the tag grammar: << TYPE _ [0-9]+ >>
IsTypedTagKey(k) ==
  \E ty \in { << "E", "M", "A", "I", "L" >>, << "P", "H", "O", "N", "E" >>,
              << "S", "S", "N" >>, << "U", "R", "L" >>, << "D", "O", "B" >>,
              << "I", "D" >>, << "A", "D", "D", "R" >> } :
    LET head == << "<", "<" >> \o ty \o << "_" >>
    IN  /\ Len(k) >= Len(head) + 3
        /\ Slice(k, 0, Len(head)) = head
        /\ Slice(k, Len(k) - 2, Len(k)) = << ">", ">" >>
        /\ RunEnd(k, Len(head), DigitSet) = Len(k) - 2

\* C4: Tag grammar.  After any sequence of redact, audit and patch, every key
\* of mapping.tags is a person tag <<INITIALS[N]>> or a typed tag <<TYPE_N>>.
C4_TagGrammar ==
  \A k \in KeySet(mapping.tags) : IsPersonTagKey(k) \/ IsTypedTagKey(k)

\* C5: Canonical value kept.  After audits of the Redactor's output, the value
\* stored under a tag that existed before the audit is unchanged, and it is at
\* least as long as every surface of its cluster.
C5_CanonicalKept ==
  (lastOp = "audit" /\ findings = << >>) =>
    /\ \A k \in KeySet(pre.mapping.tags) :
         DictGet(mapping.tags, k) = DictGet(pre.mapping.tags, k)
    /\ \A s \in KeySet(mapping.persons) :
         Len(s) <= Len(DictGet(mapping.tags, DictGet(mapping.persons, s)))

\* C6: Auditor idempotence.  A second audit of the first audit's result, the
\* first audit being run on the Redactor's output, changes nothing.
C6_Idempotence ==
  (lastOp = "audit" /\ stages = 2 /\ findings = << >>) =>
    /\ text = pre.text
    /\ mapping = pre.mapping

\* the finding f of the last audit is a part of a surface known before it
IsKnownPart(f) ==
  \E i \in 1..Len(pre.mapping.persons) :
    InSeq(Lower(f), Split(Lower(pre.mapping.persons[i][1])))

\* C7: Auditor reuse.  A finding that is a part of a known surface is replaced
\* everywhere by the tag of such a surface and adds no key to tags; a key the
\* audit adds holds a finding that is a part of no known surface.
C7_AuditorReuse ==
  lastOp = "audit" =>
    LET fs == AuditFindings(pre.text, pre.mapping, blocklist)
    IN  /\ \A i \in 1..Len(fs) :
             IsKnownPart(fs[i]) =>
               /\ ~ContainsCI(text, fs[i])
               /\ DictHas(mapping.persons, fs[i])
               /\ \E j \in 1..Len(pre.mapping.persons) :
                    /\ InSeq(Lower(fs[i]), Split(Lower(pre.mapping.persons[j][1])))
                    /\ DictGet(mapping.persons, fs[i]) = pre.mapping.persons[j][2]
        /\ \A k \in KeySet(mapping.tags) \ KeySet(pre.mapping.tags) :
             ~IsKnownPart(DictGet(mapping.tags, k))

\* an audit whose finding was a part of a known surface, and which replaced it
C7_Witness ==
  /\ lastOp = "audit"
  /\ text # pre.text
  /\ \E i \in 1..Len(AuditFindings(pre.text, pre.mapping, blocklist)) :
       IsKnownPart(AuditFindings(pre.text, pre.mapping, blocklist)[i])

\* ------------------------------------------------------------------------
\* Properties of the cloud stages (Verify API, OpenRouter)
\* ------------------------------------------------------------------------
\* C8: Verify degradation.  When the request of verify_and_patch ends in a
\* client error (4xx, 5xx after the retries, or a transport failure), the text
\* and the mapping it returns are the ones it was given.
C8_VerifyDegradation ==
  (lastOp = "verify" /\ errors # << >>) =>
    (text = pre.text /\ mapping = pre.mapping)

\* verify_and_patch has returned after an error, on a text whose tags had
\* been neutralized for the request
C8_Witness ==
  /\ lastOp = "verify"
  /\ errors # << >>
  /\ neutral # pre.text
  /\ pre.mapping.tags # << >>

\* C9: OpenRouter degradation.  When a batch request of
\* openrouter_verify_and_patch has failed with OpenRouterError, the text and
\* the mapping it returns are the ones it was given, whatever the other
\* batches returned.
C9_OpenRouterDegradation ==
  (lastOp = "openrouter" /\ errors # << >>) =>
    (text = pre.text /\ mapping = pre.mapping)

\* a person tag in either grammar: <<INITIALS[N]>> or <NAME INITIALS[N]>
IsPersonTag(k) == IsPersonTagKey(k) \/ NameTagParse(k) # << >>

\* C10: Tag neutrality.  The text neutralize_tags produced, and every shard
\* of the request cut from it, contains no person tag of mapping.tags, in
\* either person grammar.
C10_TagNeutrality ==
  pc = "verify_post" =>
    \A k \in KeySet(mapping.tags) :
      IsPersonTag(k) =>
        /\ ~Contains(neutral, k)
        /\ \A i \in 1..Len(request) : ~Contains(request[i].text, k)

\* the answers after which the client loop goes round again
Retryable == {"5xx", "transport"}

\* the sleeps of a call that has been answered n times without leaving the
\* loop: _RETRY_BACKOFF * (attempt + 1) for attempt = 0, 1, ...
WaitsAfter(n) == [ i \in 1..n |-> _RETRY_BACKOFF * i ]

\* C11: Retry policy of one verify / check_pii call.  Only a 5xx answer or a
\* transport error is followed by another POST, after a sleep of
\* backoff * (attempt + 1); a 4xx answer and a 200 answer end the call at
\* once; there are at most _MAX_RETRIES retries, so at most 3 POSTs; after the
\* third failure the last error is raised and no sleep follows it.
C11_RetryPolicy ==
  /\ Len(responses) <= _MAX_RETRIES
  /\ \A i \in 1..Len(responses) : responses[i] \in Retryable
  /\ waits = WaitsAfter(Len(responses))
  /\ \A k \in 1..Len(calls) :
       LET rs   == calls[k].responses
           last == rs[Len(rs)]
       IN  /\ Len(rs) \in 1..(_MAX_RETRIES + 1)
           /\ \A i \in 1..(Len(rs) - 1) : rs[i] \in Retryable
           /\ calls[k].waits = WaitsAfter(Len(rs) - 1)
           /\ calls[k].raised = (IF last = "ok" THEN "none" ELSE last)
           /\ last \in Retryable => Len(rs) = _MAX_RETRIES + 1

\* a call of check_pii that was answered 5xx, then failed in transport,
\* then was answered 5xx again, and raised
C11_Witness ==
  /\ lastOp = "openrouter"
  /\ \E k \in 1..Len(calls) :
       /\ calls[k].responses = << "5xx", "transport", "5xx" >>
       /\ calls[k].raised = "5xx"

\* the last answer of a finished call
LastResponse(c) == c.responses[Len(c.responses)]

\* C12: Error categories of VerifyClient.verify.  A 401 answer raises
\* InvalidAPIKeyError, a 402 answer InsufficientCreditsError carrying
\* credits_remaining and purchase_url, a 429 answer RateLimitError carrying
\* retry_after, and any other 4xx answer a VerifyError of none of these
\* categories.
C12_ErrorCategories ==
  lastOp = "verify" =>
    \A k \in 1..Len(calls) :
      LastResponse(calls[k]) = "4xx" =>
        /\ calls[k].status = 401 => calls[k].error.class = "InvalidAPIKeyError"
        /\ calls[k].status = 402 =>
             /\ calls[k].error.class = "InsufficientCreditsError"
             /\ {"credits_remaining", "purchase_url"} \subseteq calls[k].error.carries
        /\ calls[k].status = 429 =>
             /\ calls[k].error.class = "RateLimitError"
             /\ "retry_after" \in calls[k].error.carries
        /\ calls[k].status \notin {401, 402, 429} =>
             calls[k].error.class = "VerifyError"

\* the characters of t that are not whitespace, in their order
NonSpace(t) == SelectSeq(t, LAMBDA c : ~IsSpace(c))

\* C13: Sharder preserves content.  For every text and every sentence
\* segmentation of it, the texts of the shards shard_text returns, taken in
\* their order, hold the non-whitespace characters of the text exactly once
\* and in order, whether short sentences were merged or long ones split.
C13_ShardsPreserveContent ==
  pc = "sharded" =>
    Concat([ i \in 1..Len(request) |-> NonSpace(request[i].text) ]) = NonSpace(text0)

\* a short sentence was merged into its predecessor and an over-long chunk
\* was split
C13_Witness ==
  /\ pc = "sharded"
  /\ \E i \in 2..Len(sentences) : Len(Split(sentences[i].text)) < _MIN_SENTENCE_WORDS
  /\ Len(request) > Len(sentences)
  /\ \E i \in 1..Len(sentences) : Len(sentences[i].text) > _MAX_SHARD_CHARS

\* ------------------------------------------------------------------------
\* C14
\* ------------------------------------------------------------------------
\* how many times each element occurs in a list
BagOfSeq(s) ==
  [ x \in { s[i] : i \in 1..Len(s) } |->
      Cardinality({ i \in 1..Len(s) : s[i] = x }) ]

\* verifier.py lines 41-59: the list verify_and_patch hands to shuffle_shards,
\* the shards of the neutral text followed by the canaries when there are any
ShuffleInput ==
  LET shards == shard_text(neutral)
  IN  shards \o (IF canary_ids = {} THEN << >>
                 ELSE CanaryShards(Len(shards)))

SourceOrder ==
  << "EMAIL", "PHONE", "SSN", "URL", "DOB", "ID_NUMBER", "ADDRESS", "NER",
     "HEADER" >>

SourceRank(source) == CHOOSE r \in 1..Len(SourceOrder) : SourceOrder[r] = source

\* the candidates of the combined list, each with the rank of its source
Ranked ==
  { [ entity |-> candidates.regex[i],
      rank |-> SourceRank(candidates.regex[i].label) ] :
      i \in 1..Len(candidates.regex) }
  \cup { [ entity |-> candidates.spacy[i], rank |-> SourceRank("NER") ] :
           i \in 1..Len(candidates.spacy) }
  \cup { [ entity |-> candidates.allcaps[i], rank |-> SourceRank("HEADER") ] :
           i \in 1..Len(candidates.allcaps) }

\* C15: detect_pii returns its entities ordered by start offset and pairwise
\* non-overlapping (a.end <= b.start for consecutive a, b); a returned entity
\* is at least as long as every candidate of the combined list that starts
\* where it starts, and among the candidates of its own span it is the one of
\* the earliest source (regex patterns in the order EMAIL, PHONE, SSN, URL,
\* DOB, ID_NUMBER, ADDRESS, then NER, then the header heuristic)
C15_OrderedNonOverlapping ==
  pc = "detected" =>
    /\ \A i \in 1..(Len(entities) - 1) :
         /\ entities[i].start <= entities[i + 1].start
         /\ entities[i].end <= entities[i + 1].start
    /\ \A i \in 1..Len(entities) : \A c \in Ranked :
         c.entity.start = entities[i].start =>
           /\ c.entity.end <= entities[i].end
           /\ c.entity.end = entities[i].end =>
                \E d \in Ranked : d.entity = entities[i] /\ d.rank <= c.rank

\* two entities are returned; the first beat a shorter candidate that starts
\* where it starts, a candidate of its own span from a later source, and a
\* candidate that overlaps its end
C15_Witness ==
  /\ pc = "detected"
  /\ Len(entities) = 2
  /\ \E c, d \in Ranked :
       /\ c.entity.start = entities[1].start
       /\ c.entity.end < entities[1].end
       /\ d.entity.start = entities[1].start
       /\ d.entity.end = entities[1].end
       /\ d.entity # entities[1]

\* ------------------------------------------------------------------------
\* C16, C17
\* ------------------------------------------------------------------------
\* the stages of a redaction run in their order
StageOrder ==
  << "Detector", "Validator", "Redactor", "Auditor", "Verifier", "Patch" >>

StageRank(stage) == CHOOSE r \in 1..Len(StageOrder) : StageOrder[r] = stage

\* how often stage occurs in the list of stages ran
TimesRun(ran, stage) == Cardinality({ i \in 1..Len(ran) : ran[i] = stage })

\* C16: Stage ordering.  When an entry point (paste/clipboard, process_file,
\* menu bar) has written the redacted text and the mapping, the stages it ran
\* are in the strict order Detector, Validator, Redactor, Auditor, Verifier,
\* Patch, none of them twice; Detector, Validator and Redactor ran, the
\* Auditor ran exactly when audit is enabled and the Verifier exactly when
\* verify is enabled
C16_StageOrdering ==
  pc = "written" =>
    \E ran \in { SelectSeq(trace, LAMBDA s :
                   \E r \in 1..Len(StageOrder) : StageOrder[r] = s) } :
      /\ \A i, j \in 1..Len(ran) :
           i < j => StageRank(ran[i]) < StageRank(ran[j])
      /\ TimesRun(ran, "Detector") = 1
      /\ TimesRun(ran, "Validator") = 1
      /\ TimesRun(ran, "Redactor") = 1
      /\ TimesRun(ran, "Auditor") = (IF settings.audit_enabled THEN 1 ELSE 0)
      /\ TimesRun(ran, "Verifier") = (IF settings.verify_enabled THEN 1 ELSE 0)

\* C17: Settings requirements.  In the Settings resolve_settings returned for
\* any command line and any settings.conf: verify_enabled implies a non-empty
\* verify_api_key, openrouter_enabled implies a non-empty openrouter_api_key,
\* audit_enabled is false with --no-audit and true when neither the command
\* line nor settings.conf sets it, and overwrite implies output_format 'same'
C17_SettingsRequirements ==
  pc # "start" =>
    /\ settings.verify_enabled => settings.verify_api_key # << >>
    /\ settings.openrouter_enabled => settings.openrouter_api_key # << >>
    /\ invocation.cli.no_audit => ~settings.audit_enabled
    /\ (~invocation.cli.no_audit /\ invocation.file.audit_enabled = {})
         => settings.audit_enabled
    /\ settings.overwrite => settings.output_format = Same

\* --verify was given and settings.conf holds a blank key only: verify is off
C17_Witness ==
  /\ pc = "resolved"
  /\ invocation.cli.verify
  /\ invocation.file.verify_api_key = { << " " >> }
  /\ ~settings.verify_enabled
  /\ settings.audit_enabled

\* ------------------------------------------------------------------------
\* C18
\* ------------------------------------------------------------------------
\* C18: Counter continuation.  A tag that audit_redacted or _apply_findings
\* creates for a finding is no key the mapping already had, so the entries
\* the mapping had are all still there with their values; the one entry the
\* Auditor may rewrite is that of the tag it reuses for a part of a known
\* surface
C18_CounterContinuation ==
  lastOp \in {"audit", "patch"} =>
    \A i \in 1..Len(pre.mapping.tags) :
      \E tag \in { pre.mapping.tags[i][1] } :
        \/ /\ DictHas(mapping.tags, tag)
           /\ DictGet(mapping.tags, tag) = pre.mapping.tags[i][2]
        \/ /\ lastOp = "audit"
           /\ DictHas(mapping.tags, tag)
           /\ ExistingTag(pre.mapping.persons, DictGet(mapping.tags, tag))
                = << tag >>

\* ------------------------------------------------------------------------
\* C19, C20
\* ------------------------------------------------------------------------
\* every whitespace-separated token of name occurs, case-insensitively, among
\* the tokens of full
AllTokensIn(name, full) ==
  \A k \in 1..Len(Split(name)) :
    InSeq(Lower(Split(name)[k]), Split(Lower(full)))

RECURSIVE ClustersByTokens(_, _, _)
\* surface -> canonical when the names, longest first, are placed by the rule
\* that a surface joins the first placed cluster whose canonical form has all
\* of its tokens, and starts a cluster otherwise
ClustersByTokens(names, i, placed) ==
  IF i > Len(names) THEN placed
  ELSE LET hits == { j \in 1..Len(placed) : AllTokensIn(names[i], placed[j][2]) }
       IN  ClustersByTokens(names, i + 1,
             DictSet(placed, names[i],
                     IF hits = {} THEN names[i] ELSE placed[MinOf(hits)][2]))

\* C19: Coreference clustering.  After redact, every PERSON surface form has
\* the tag of the cluster it belongs to when the surfaces are taken in
\* descending length and a surface joins an already placed cluster exactly
\* when all of its whitespace-separated tokens occur, case-insensitively,
\* among the tokens of the cluster's canonical form
C19_ClusterByAllTokens ==
  lastOp = "redact" =>
    \E names \in NameOrders(PersonTexts(entities)) :
      \E placed \in { ClustersByTokens(names, 1, << >>) } :
        \A i \in 1..Len(placed) :
          /\ DictHas(mapping.persons, placed[i][1])
          /\ DictGet(mapping.tags, DictGet(mapping.persons, placed[i][1]))
               = placed[i][2]

\* the tag of the cluster of canonical name c among the clusters canon: the
\* initials, followed by k when c is the k-th (k >= 2) of the canonical names
\* with these initials in sorted order
ClusterTag(c, canon) ==
  LET k == Cardinality({ d \in canon : /\ _make_initials(d) = _make_initials(c)
                                        /\ (d = c \/ LexLess(d, c)) })
  IN  << "<", "<" >> \o _make_initials(c)
        \o (IF k = 1 THEN << >> ELSE IntStr(k)) \o << ">", ">" >>

\* the entities that are the first occurrence of a non-person literal
FirstLiterals(ents) ==
  SelectSeq([ i \in 1..Len(ents) |-> [ ent |-> ents[i], at |-> i ] ],
            LAMBDA x : /\ x.ent.label # "PERSON"
                       /\ \A j \in 1..(x.at - 1) :
                            ents[j].label = "PERSON" \/ ents[j].text # x.ent.text)

\* C20: Initials collision.  After redact, distinct person clusters have
\* distinct tags: among the clusters that share an initials string, in sorted
\* order of canonical name, the first has <<INITIALS>> and the k-th
\* <<INITIALSk>>, and every surface has the tag of its cluster; each distinct
\* non-person literal has <<LABEL_N>>, N counting 1, 2, 3, ... per label in
\* order of first occurrence, and no literal has a second tag
C20_InitialsCollision ==
  lastOp = "redact" =>
    \E names \in NameOrders(PersonTexts(entities)) :
      \E groups \in { _group_names(names) }, firsts \in { FirstLiterals(entities) } :
        /\ \A c, d \in ValueSet(groups) :
             c # d => ClusterTag(c, ValueSet(groups)) # ClusterTag(d, ValueSet(groups))
        /\ \A i \in 1..Len(groups) :
             \E tag \in { ClusterTag(groups[i][2], ValueSet(groups)) } :
               /\ DictHas(mapping.persons, groups[i][1])
               /\ DictGet(mapping.persons, groups[i][1]) = tag
               /\ DictHas(mapping.tags, tag)
               /\ DictGet(mapping.tags, tag) = groups[i][2]
        /\ \A i \in 1..Len(firsts) :
             \E n \in { Cardinality({ j \in 1..i :
                          firsts[j].ent.label = firsts[i].ent.label }) } :
               \E tag \in { << "<", "<" >> \o LabelChars[firsts[i].ent.label]
                              \o << "_" >> \o IntStr(n) \o << ">", ">" >> } :
                 /\ DictHas(mapping.tags, tag)
                 /\ DictGet(mapping.tags, tag) = firsts[i].ent.text
        /\ Len(mapping.tags) = Cardinality(ValueSet(groups)) + Len(firsts)

\* two clusters share the initials AL, the second in sorted order being
\* 'Ann Lee', and a date has the first tag of its label
C20_Witness ==
  /\ lastOp = "redact"
  /\ DictHas(mapping.tags, << "<", "<", "A", "L", "2", ">", ">" >>)
  /\ DictGet(mapping.tags, << "<", "<", "A", "L", "2", ">", ">" >>) = AnnLee
  /\ DictHas(mapping.tags, << "<", "<", "D", "O", "B", "_", "1", ">", ">" >>)

\* ------------------------------------------------------------------------
\* C21
\* ------------------------------------------------------------------------
RECURSIVE Unredacted(_, _, _)
\* t with every occurrence of a key of tags, from key i on, blanked out to one
\* mark: the characters of t that are not redacted, each at its place
Unredacted(t, tags, i) ==
  IF i > Len(tags) THEN t
  ELSE Unredacted(ReplaceAll(t, tags[i][1], << "#" >>, FALSE), tags, i + 1)

\* two results of the patch step that differ at most in the numbers of tags
SameRedaction(a, b) ==
  /\ Unredacted(a.text, a.mapping.tags, 1) = Unredacted(b.text, b.mapping.tags, 1)
  /\ ValueSet(a.mapping.tags) = ValueSet(b.mapping.tags)

\* C21: Patch order-independence.  Whatever the order in which the findings
\* of a response are passed to _apply_findings on the same text and mapping,
\* the result redacts the same characters and records the same original
\* values as the result of the order that was taken
C21_PatchOrderIndependence ==
  (lastOp = "patch" /\ pc = "staged") =>
    \A other \in ListsOf({ findings[i] : i \in 1..Len(findings) }, Len(findings)) :
      SameRedaction([ text |-> text, mapping |-> mapping ],
                    _apply_findings(pre.text, pre.mapping, other))

\* ------------------------------------------------------------------------
\* C22, C23
\* ------------------------------------------------------------------------
\* t[a:b] for offsets that may lie beyond the end of t
Clamped(t, a, b) ==
  LET lo == IF a > Len(t) THEN Len(t) ELSE a
      hi == IF b > Len(t) THEN Len(t) ELSE b
  IN  IF hi <= lo THEN << >> ELSE Slice(t, lo, hi)

\* C22: Shard offsets.  For every shard shard_text returns, the slice
\* text[start:end] of the neutralized text, stripped of surrounding
\* whitespace, is the shard's text; also for the pieces of an over-long
\* sentence, whether it was cut at one blank, at a run of whitespace or
\* without any whitespace
C22_ShardOffsets ==
  pc = "sharded" =>
    \A i \in 1..Len(request) :
      Strip(Clamped(neutral, request[i].start, request[i].end)) = request[i].text

\* the chunks shard_text caps: the sentences after the short ones were merged
Chunks == MergeShort(neutral, sentences, 1, << >>)

RECURSIVE ShardStart(_)
\* where the text of shard i begins in the neutral text: at the first
\* character that is not whitespace after the text of the shard before it
ShardStart(i) ==
  LET from == IF i = 1 THEN 0 ELSE ShardStart(i - 1) + Len(request[i - 1].text)
  IN  MinOf({ j \in from..(Len(neutral) - 1) : ~IsSpace(neutral[j + 1]) })

\* the end of the chunk that offset a lies in
ChunkEnd(a) ==
  Chunks[CHOOSE k \in 1..Len(Chunks) : Chunks[k].start <= a /\ a < Chunks[k].end].end

\* where a chunk that goes on from offset a to offset e is cut: at its
\* rightmost blank before _MAX_SHARD_CHARS characters, or after
\* _MAX_SHARD_CHARS characters when it has none
CutOf(a, e) ==
  LET blanks == { j \in (a + 1)..(a + _MAX_SHARD_CHARS - 1) : neutral[j + 1] = " " }
  IN  IF e - a <= _MAX_SHARD_CHARS THEN e
      ELSE IF blanks = {} THEN a + _MAX_SHARD_CHARS
      ELSE MaxOf(blanks)

\* C23: Shard length cap.  Every shard shard_text returns has a text that is
\* not empty, not only whitespace and of at most _MAX_SHARD_CHARS
\* characters; a chunk that is longer is cut at its rightmost blank before
\* position _MAX_SHARD_CHARS, or at _MAX_SHARD_CHARS characters when it has
\* no such blank, and what remains of it is cut again until it fits
C23_ShardLengthCap ==
  pc = "sharded" =>
    /\ \A i \in 1..Len(request) :
         /\ Strip(request[i].text) # << >>
         /\ Len(request[i].text) <= _MAX_SHARD_CHARS
    /\ sentences # << >> =>
         \A i \in 1..Len(request) :
           \E a \in { ShardStart(i) } :
             request[i].text = Strip(Slice(neutral, a, CutOf(a, ChunkEnd(a))))

\* a chunk longer than _MAX_SHARD_CHARS was cut at a blank, and what
\* remained of it was cut again where it had no blank
C23_Witness ==
  /\ pc = "sharded"
  /\ \E i \in 1..(Len(request) - 2) :
       /\ ChunkEnd(ShardStart(i)) = ChunkEnd(ShardStart(i + 2))
       /\ Len(request[i].text) < _MAX_SHARD_CHARS
       /\ neutral[ShardStart(i) + Len(request[i].text) + 1] = " "
       /\ Len(request[i + 1].text) = _MAX_SHARD_CHARS
       /\ \A j \in 1..Len(request[i + 1].text) : request[i + 1].text[j] # " "

\* ------------------------------------------------------------------------
\* C24
\* ------------------------------------------------------------------------
\* the ids of the shards of the document itself
DocumentIds ==
  { shard_text(neutral)[i].id : i \in 1..Len(shard_text(neutral)) }

\* the findings of the response on a shard of the document, and on a canary
OnDocument == SelectSeq(findings, LAMBDA f : f.shard_id \in DocumentIds)

OnCanaries == SelectSeq(findings, LAMBDA f : f.shard_id \notin DocumentIds)

\* C24: Canary findings never reach the patch step.  What verify_and_patch
\* returns after a response is what the patch step makes of the findings on
\* the document's own shards: no finding with the id of a canary shard is
\* applied to the text or the mapping, and a response with canary findings
\* only leaves both as they were
C24_CanaryFindingsDropped ==
  (pc = "verified" /\ calls # << >> /\ calls[Len(calls)].raised = "none") =>
    /\ OnDocument # << >> =>
         [ text |-> text, mapping |-> mapping ]
           = _apply_findings(pre.text, pre.mapping, OnDocument)
    /\ OnDocument = << >> => text = pre.text /\ mapping = pre.mapping

\* the response carried canary findings only, one of them a text that the
\* document holds in clear
C24_Witness ==
  /\ pc = "verified"
  /\ calls # << >>
  /\ calls[Len(calls)].raised = "none"
  /\ OnCanaries # << >>
  /\ OnDocument = << >>
  /\ \E i \in 1..Len(findings) :
       /\ Contains(pre.text, findings[i].text)
       /\ findings[i].text \notin ValueSet(pre.mapping.tags)
  /\ text = pre.text

\* ------------------------------------------------------------------------
\* C25
\* ------------------------------------------------------------------------
\* the shards of the request that are the document's own, in their order
OwnShards == SelectSeq(request, LAMBDA s : ~s.is_canary)

\* C25: Batching.  Every request to the external service carries at most
\* _BATCH_SIZE = 5 shards, and every shard, the canaries included, is sent in
\* one request only: on the Verify-API path the request holds each shard
\* once, on the OpenRouter path the batch being sent and the batches still to
\* send are the shards from a multiple of _BATCH_SIZE on
C25_Batching ==
  /\ pc = "verify_post" =>
       /\ Len(request) <= _BATCH_SIZE
       /\ BagOfSeq(OwnShards) = BagOfSeq(shard_text(neutral))
       /\ \A i, j \in 1..Len(request) : request[i].id = request[j].id => i = j
  /\ pc = "or_post" =>
       /\ Len(request) <= _BATCH_SIZE
       /\ \E shards \in { shard_text(neutral) } :
            \E b \in 0..(Len(shards) \div _BATCH_SIZE) :
              SubSeq(shards, b * _BATCH_SIZE + 1, Len(shards))
                = request \o Concat(todo)

\* ------------------------------------------------------------------------
\* C26
\* ------------------------------------------------------------------------
\* C26: Blocklist cache under concurrency.  Every call of _get_blocklist by
\* a thread, whatever the other threads calling it or reload_blocklist do
\* meanwhile, returns the union of the three blocklist files: no call raises,
\* returns None, or returns a set that is empty or partly filled
C26_BlocklistComplete ==
  \A t \in Threads :
    /\ callers[t].at # "TypeError"
    /\ callers[t].returned =>
         /\ ~callers[t].none
         /\ callers[t].value = UNION { BlocklistFiles[k] : k \in 1..Len(BlocklistFiles) }

\* ------------------------------------------------------------------------
\* C27
\* ------------------------------------------------------------------------
\* C27: Mapping as a value.  audit_redacted and _apply_findings never modify
\* the mapping they are passed: after the call the caller's mapping object
\* holds the tags and persons entries it held before, whether or not a
\* finding was applied, and what was added is in the returned mapping only
C27_MappingUnmodified ==
  (lastOp \in {"audit", "patch"} /\ objects.passed # 0) =>
    /\ Deref(objects, objects.passed) = pre.mapping
    /\ Deref(objects, objects.returned) = mapping

\* the patch step was passed a mapping with entries and returned one with
\* more of them
C27_Witness ==
  /\ lastOp = "patch"
  /\ objects.passed # 0
  /\ pre.mapping.tags # << >>
  /\ Len(mapping.tags) > Len(pre.mapping.tags)
  /\ Len(mapping.persons) > Len(pre.mapping.persons)
  /\ objects.returned # objects.passed

\* ------------------------------------------------------------------------
\* C28
\* ------------------------------------------------------------------------
\* C28: Tags stay intact through the redactor's global name pass.  After
\* redact, every tag it put in the place of an entity is still in the
\* redacted text as mapping.tags records it: the replacement of the person
\* surfaces, which ignores case, rewrites no character of a tag that was
\* inserted before
C28_TagsIntact ==
  lastOp = "redact" =>
    \A k \in KeySet(mapping.tags) : Contains(text, k)

\* ------------------------------------------------------------------------
\* C29
\* ------------------------------------------------------------------------
\* C29: Validator score bound.  validate_entities keeps no PERSON candidate
\* of a single word, whatever its capitalization and the part-of-speech
\* tags of its tokens: its score is at most 0.50 - 0.15 + 0.20 = 0.55, below
\* MIN_PERSON_CONFIDENCE; and every PERSON entity it keeps has a confidence
\* of at least 0.6 and at most 1.0
C29_ScoreBound ==
  pc = "validated" =>
    /\ \A i \in 1..Len(validated.kept) :
         validated.kept[i].label = "PERSON" =>
           /\ Len(Split(validated.kept[i].text)) # 1
           /\ validated.kept[i].confidence >= MIN_PERSON_CONFIDENCE
           /\ validated.kept[i].confidence <= 100
    /\ \A i \in 1..Len(entities) :
         (entities[i].label = "PERSON" /\ Len(Split(entities[i].text)) = 1) =>
           score_person_entity(entities[i], validated.orgs, blocklist,
                               validated.tagged[i]) <= 55

\* a capitalized word of more than three letters whose tokens are all proper
\* nouns was scored 0.55 and dropped, next to a name that was kept
C29_Witness ==
  /\ pc = "validated"
  /\ Len(entities) = 2
  /\ Len(Split(entities[1].text)) = 1
  /\ score_person_entity(entities[1], validated.orgs, blocklist,
                         validated.tagged[1]) = 55
  /\ Len(validated.kept) = 1
  /\ validated.kept[1].label = "PERSON"
  /\ validated.kept[1].text = entities[2].text

\* ------------------------------------------------------------------------
\* C30
\* ------------------------------------------------------------------------
\* C30: Menu-bar single job.  At most one clipboard job (remove-PII or
\* restore) runs at any time; a request that arrives while _processing is
\* set is ignored and starts nothing; the flag is set exactly while a job
\* runs, so it is cleared when the job ends on every path (success, empty
\* clipboard, no PII found, exception) and a request made after no job runs
\* is not ignored
C30_SingleJob ==
  /\ Cardinality(Running) <= 1
  /\ _processing <=> Running # {}
  /\ \A j \in 1..Len(jobs) :
       jobs[j].at = "ended" => jobs[j].path \in JobPaths(jobs[j].target)
  /\ \A i \in 1..Len(clicks) :
       /\ clicks[i].outcome = "ignored" <=> clicks[i].running > 0
       /\ clicks[i].running > 0 <=> clicks[i].busy
  /\ Len(jobs) = Cardinality({ i \in 1..Len(clicks) : clicks[i].outcome = "started" })

\* a request was ignored while the first job ran; that job ended in its
\* except clause, and the request after it started a job again
C30_Witness ==
  /\ Len(clicks) = 3
  /\ clicks[1].outcome = "started"
  /\ clicks[2].outcome = "ignored"
  /\ clicks[3].outcome = "started"
  /\ Len(jobs) = 2
  /\ jobs[1].at = "ended"
  /\ jobs[1].path = "exception"
  /\ jobs[2].at = "ended"
  /\ jobs[2].path \in { "empty", "no_pii" }
  /\ ~_processing

====
